---- MODULE Spec2Model ----
(***************************************************************************)
(* Model of the noise generator for multispectral drone images:            *)
(*   - the command-line batch pipeline  (scripts/add_noise_to_images.py:   *)
(*     main, process_images_with_noise, save_processing_report),           *)
(*   - the GUI generation worker and its controls (gui/main_window.py,     *)
(*     gui/noise_controls.py),                                             *)
(*   - the shape and the values of the tensors returned by the eight noise *)
(*     models (NoiseGenerator.apply_noise),                                *)
(*   - load_multiband_image and save_multiband_image.                      *)
(* The variable `app` says which of these a behaviour is a run of; the     *)
(* variables of the others keep their initial values.                      *)
(***************************************************************************)
EXTENDS Integers, Sequences, FiniteSets, TLC

VARIABLES
    app,                  \* "cli" | "gui" | "noise" | "pixels" | "codec"
    \* ---- inputs of a run (the environment)
    input_exists,         \* Path(input_dir).exists()
    dir_listing,          \* the files of the input directory, in listing order
    noise_levels,         \* args.levels / generation_params["levels"]
    selected_noise_types, \* the noise-type names the user selected
    fail_pat,             \* which (type, level) units fail, and how
    \* ---- command-line pipeline
    entry,                \* "main" | "direct" (process_images_with_noise called directly)
    pc,                   \* position in main / process_images_with_noise
    fi, ti, level,        \* loop positions: file, noise type, level
    original_img,         \* the image loaded for the current file
    stats,                \* the stats dictionary of process_images_with_noise
    fs_dirs,              \* directories created under the output folder
    fs_files,             \* image files written, each with the unit that wrote it
    reports,              \* report files written by save_processing_report
    exited, exit_status,  \* the process has ended / its exit status
    trace,                \* history of the pipeline's loads and units
    \* ---- one call of NoiseGenerator.apply_noise
    image,                \* the input tensor
    noise_type,           \* the noise type asked for
    intensity,            \* the level
    noisy,                \* what the call returned (None before the call)
    \* ---- load_multiband_image / save_multiband_image
    loaded_img,           \* the tensor as load_multiband_image returned it
    disk,                 \* the image file on disk (None: no file)
    backends,             \* which libraries are importable, which reads fail
    load_ret,             \* what load_multiband_image returned or raised
    \* ---- GUI: main window, noise controls, worker threads
    selection_type,       \* FileSelector.selection_type
    current_project_path, \* MainWindow.current_project_path (None: no project)
    generation_active,    \* MainWindow.generation_active
    noise_controls,       \* NoiseControls: generation_active, buttons, progress, status
    tk_queue,             \* callbacks handed to the interactive thread by root.after(0, ...)
    worker_tk_calls,      \* tkinter methods that a worker thread has called itself
    workers,              \* the generation threads of the session, by run number
    processing_history,   \* ProjectManager.current_project["processing_history"]
    shown                 \* per run: the progress updates delivered so far

envVars == <<input_exists, dir_listing, noise_levels, selected_noise_types, fail_pat>>
cliVars == <<entry, pc, fi, ti, level, original_img, stats, fs_dirs, fs_files,
             reports, exited, exit_status, trace>>
codecVars == <<loaded_img, disk, backends, load_ret>>
noiseVars == <<image, noise_type, intensity, noisy, codecVars>>
guiVars == <<selection_type, current_project_path, generation_active, noise_controls,
             tk_queue, worker_tk_calls, workers, processing_history, shown>>
nonCliVars == <<noiseVars, guiVars>>
vars == <<app, envVars, cliVars, noiseVars, guiVars>>

----------------------------------------------------------------------------
(* Bounds of the model *)

MaxFiles == 2
MaxLevels == 2
MaxDim == 4
MaxIntensity == 3
MaxRuns == 2
MaxBands == 4

(* Program constants *)

DefaultLevels == 10

None == [none |-> TRUE]

----------------------------------------------------------------------------
(* NoiseGenerator.noise_types and the extension list of the directory scan *)

noise_types ==
    <<"gaussian", "salt_pepper", "poisson", "speckle",
      "motion_blur", "atmospheric", "compression", "iso_noise">>

image_extensions ==
    <<".jpg", ".jpeg", ".JPG", ".JPEG", ".png", ".PNG", ".tif", ".tiff", ".TIF", ".TIFF">>

(* The files a directory or a selection is made of: name = stem + ext;      *)
(* readable = FALSE is a corrupted file that no backend of                  *)
(* load_multiband_image can parse.                                          *)
CandidateFiles ==
    << [stem |-> "a", ext |-> ".jpg",  readable |-> TRUE],
       [stem |-> "a", ext |-> ".png",  readable |-> TRUE],
       [stem |-> "b", ext |-> ".TIF",  readable |-> TRUE],
       [stem |-> "c", ext |-> ".tiff", readable |-> FALSE],
       [stem |-> "n", ext |-> ".txt",  readable |-> TRUE] >>

(* The elements of s at the positions in I, in the order of s *)
RECURSIVE Pick(_, _, _)
Pick(s, I, i) ==
    IF i > Len(s) THEN <<>>
    ELSE (IF i \in I THEN <<s[i]>> ELSE <<>>) \o Pick(s, I, i + 1)

(* Directory contents / selections of at most n files, listed by name *)
Listings(n) ==
    { Pick(CandidateFiles, I, 1) :
        I \in { J \in SUBSET DOMAIN CandidateFiles : Cardinality(J) <= n } }

Range(s) == { s[i] : i \in DOMAIN s }

RECURSIVE Concat(_)
Concat(ss) == IF ss = <<>> THEN <<>> ELSE Head(ss) \o Concat(Tail(ss))

(* Path(folder).glob('*' + ext): the entries of the listing whose name ends *)
(* with ext, in listing order (the match is case-sensitive).                *)
SelectExt(listing, ext) ==
    LET keep(f) == f.ext = ext IN SelectSeq(listing, keep)

(* Variant: the pattern matches every entry of the directory *)
GlobAnyName(exists, listing, ext) ==
    IF exists /\ ext = ".jpg" THEN listing ELSE <<>>

Glob(exists, listing, ext) == IF exists THEN SelectExt(listing, ext) ELSE <<>>

(* image_files: one glob per extension, concatenated in extension order *)
ImageFiles(exists, listing) ==
    Concat([i \in DOMAIN image_extensions |-> Glob(exists, listing, image_extensions[i])])

(* str.lower() on the extensions that occur *)
Lower(ext) ==
    CASE ext = ".JPG"  -> ".jpg"
      [] ext = ".JPEG" -> ".jpeg"
      [] ext = ".PNG"  -> ".png"
      [] ext = ".TIF"  -> ".tif"
      [] ext = ".TIFF" -> ".tiff"
      [] OTHER         -> ext

(* str(path).lower().endswith(('.tif', '.tiff')) *)
IsTiffName(f) == Lower(f.ext) \in {".tif", ".tiff"}

(* Path.stem / os.path.splitext(os.path.basename(p))[0] *)
Stem(f) == f.stem

(* The decimal digits of n, most significant first *)
RECURSIVE Digits(_)
Digits(n) == IF n < 10 THEN <<n>> ELSE Append(Digits(n \div 10), n % 10)

RECURSIVE PadLeft(_, _)
PadLeft(ds, width) == IF Len(ds) >= width THEN ds ELSE PadLeft(<<0>> \o ds, width)

(* Variant: the level is written without padding *)
FormatD(n) == Digits(n)

(* format(level, "02d") *)
Format02d(n) == PadLeft(Digits(n), 2)

----------------------------------------------------------------------------
(* Outcome of the units: the environment decides which apply_noise and      *)
(* save_multiband_image calls fail.  fail_pat.type is a noise type, "*"     *)
(* (every type) or "none"; fail_pat.level is a level or 0 (every level).    *)

FailKinds == {"apply_raise", "save_false", "save_raise"}

FailPatterns ==
    { [type |-> "none", level |-> 0, kind |-> "ok"] } \cup
    { [type |-> t, level |-> l, kind |-> k] :
        t \in {"*", "poisson"}, l \in 0..1, k \in FailKinds }

UnitOutcome(pat, t, l) ==
    IF /\ pat.type \in {"*", t}
       /\ pat.level \in {0, l}
    THEN pat.kind
    ELSE "ok"

(* The lists of noise types a user can select *)
Selections ==
    { <<"gaussian", "poisson">>, noise_types }

----------------------------------------------------------------------------
(* Output naming *)

(* process_images_with_noise: .tif for a TIFF input, .jpg otherwise *)
CliOutputExt(f) == IF IsTiffName(f) THEN ".tif" ELSE ".jpg"

OutputFilename(base, t, l, ext) ==
    [base |-> base, type |-> t, nn |-> Format02d(l), ext |-> ext]

(* noise_folder / output_filename *)
OutputPath(t, name) == [dir |-> t, file |-> name]

CliOutputPath(f, t, l) ==
    OutputPath(t, OutputFilename(Stem(f), t, l, CliOutputExt(f)))

----------------------------------------------------------------------------
(* The stats dictionary *)

EmptyDict == [k \in {} |-> 0]

NewStats(n) ==
    [total_processed |-> 0, total_failed |-> 0,
     noise_types |-> EmptyDict, original_images |-> n]

HasKey(d, k) == k \in DOMAIN d

(* stats['noise_types'][t] = {'processed': 0, 'failed': 0} if t is not a key *)
EnsureType(st, t) ==
    IF HasKey(st.noise_types, t) THEN st
    ELSE [st EXCEPT !.noise_types =
            [k \in DOMAIN st.noise_types \cup {t} |->
                IF k = t THEN [processed |-> 0, failed |-> 0]
                ELSE st.noise_types[k]]]

CountLoadFailure(st) == [st EXCEPT !.total_failed = @ + 1]

CountProcessed(st, t) ==
    [st EXCEPT !.total_processed = @ + 1, !.noise_types[t].processed = @ + 1]

(* Variant: a failed unit is added to the total only *)
CountFailedTotalOnly(st, t) == [st EXCEPT !.total_failed = @ + 1]

CountFailed(st, t) ==
    [st EXCEPT !.total_failed = @ + 1, !.noise_types[t].failed = @ + 1]

(* the body of the level loop after apply_noise and save_multiband_image:   *)
(* success -> processed; save returned False or anything raised -> failed   *)
CountUnit(st, t, outcome) ==
    IF outcome = "ok" THEN CountProcessed(st, t) ELSE CountFailed(st, t)

----------------------------------------------------------------------------
(* Exceptions.  Both try blocks of process_images_with_noise catch          *)
(* Exception and go on with the next file / the next level.                 *)

(* where the file loop goes after a load: the type loop, or the next file *)
AfterLoad(loaded) == IF loaded THEN "proc_type" ELSE "proc_file"

(* Variant: an exception raised by apply_noise or by the save is not caught *)
AfterUnitUncaught(outcome) ==
    IF outcome \in {"apply_raise", "save_raise"} THEN "crashed" ELSE "proc_level"

(* where the level loop goes after a unit, whatever its outcome *)
AfterUnit(outcome) == "proc_level"

(* load_multiband_image(f): an image, or ValueError when every backend fails *)
LoadSucceeds(f) == f.readable

(* Variant: the report is written only when something was processed *)
TruthyIfProcessed(st) == st # None /\ st.total_processed > 0

(* bool(stats) in main: None is falsy, the stats dictionary (4 keys) is truthy *)
Truthy(st) == st # None

(* exit status of the interpreter: 0 after main returns, 1 after a traceback *)
ExitStatus(endpc) == IF endpc = "crashed" THEN 1 ELSE 0

----------------------------------------------------------------------------
(* save_processing_report *)

SuccessRate(st) ==
    IF st.total_processed + st.total_failed > 0
    THEN <<st.total_processed, st.total_processed + st.total_failed>>
    ELSE <<0, 1>>

BuildReport(st) ==
    [processing_summary |->
        [total_images_processed |-> st.total_processed,
         total_failures         |-> st.total_failed,
         original_images        |-> st.original_images,
         success_rate           |-> SuccessRate(st)],
     noise_types_details |-> st.noise_types]

ReportNames == {"noise_processing_report.json", "noise_processing_report.txt"}

SaveProcessingReport(st) ==
    { [name |-> n, content |-> BuildReport(st)] : n \in ReportNames }

----------------------------------------------------------------------------
(* GUI state at rest *)

Runs == 1..MaxRuns

(* NoiseControls after setup_ui: Generate enabled, Stop disabled *)
ControlsReady ==
    [generation_active |-> FALSE, generate_button |-> "normal",
     stop_button |-> "disabled", progress_var |-> <<0, 1>>,
     status_label |-> "Pronto"]

(* a generation thread that has not been started *)
Unborn ==
    [pc |-> "unborn", files |-> <<>>, types |-> <<>>, levels |-> 0,
     total_operations |-> 0, current_operation |-> 0,
     fi |-> 0, ti |-> 0, level |-> 0, saved |-> 0,
     units_done |-> 0, cancelled |-> FALSE, log |-> <<>>, finished_calls |-> 0,
     stop_requested |-> FALSE, started_after_stop |-> 0, completed_after_stop |-> 0]

InitGuiState ==
    /\ generation_active = FALSE
    /\ noise_controls = ControlsReady
    /\ tk_queue = <<>>
    /\ worker_tk_calls = {}
    /\ workers = [w \in Runs |-> Unborn]
    /\ processing_history = <<>>
    /\ shown = [w \in Runs |-> <<>>]

InitGuiIdle ==
    /\ selection_type = "none"
    /\ current_project_path = None
    /\ InitGuiState

----------------------------------------------------------------------------
(* The command-line program *)

Files == ImageFiles(input_exists, dir_listing)

Exit(endpc) ==
    /\ pc' = endpc
    /\ exited' = TRUE
    /\ exit_status' = ExitStatus(endpc)

(* main: "if not Path(input_dir).exists(): ... return" *)
MainCheckDir ==
    /\ app = "cli" /\ pc = "main_check_dir"
    /\ IF input_exists
       THEN pc' = "main_check_files" /\ UNCHANGED <<exited, exit_status>>
       ELSE Exit("done")
    /\ UNCHANGED <<app, envVars, nonCliVars, entry, fi, ti, level, original_img, stats,
                   fs_dirs, fs_files, reports, trace>>

(* main: "if not image_files: ... return" *)
MainCheckFiles ==
    /\ app = "cli" /\ pc = "main_check_files"
    /\ IF Files # <<>>
       THEN pc' = "proc_start" /\ UNCHANGED <<exited, exit_status>>
       ELSE Exit("done")
    /\ UNCHANGED <<app, envVars, nonCliVars, entry, fi, ti, level, original_img, stats,
                   fs_dirs, fs_files, reports, trace>>

(* process_images_with_noise, up to the file loop *)
ProcStart ==
    /\ app = "cli" /\ pc = "proc_start"
    /\ fs_dirs' = fs_dirs \cup {"."}
    /\ IF Files = <<>>
       THEN /\ pc' = "proc_return"
            /\ UNCHANGED <<stats, fi>>
       ELSE /\ stats' = NewStats(Len(Files))
            /\ fi' = 1
            /\ pc' = "proc_file"
    /\ UNCHANGED <<app, envVars, nonCliVars, entry, ti, level, original_img,
                   fs_files, reports, exited, exit_status, trace>>

(* head of the file loop: load the next file, or leave the loop *)
ProcFile ==
    /\ app = "cli" /\ pc = "proc_file"
    /\ IF fi > Len(Files)
       THEN /\ pc' = "proc_return"
            /\ UNCHANGED <<fi, ti, original_img, stats, trace>>
       ELSE LET f == Files[fi]
                loaded == LoadSucceeds(f)
            IN  /\ trace' = Append(trace, [kind |-> "load", file |-> f, ok |-> loaded])
                /\ pc' = AfterLoad(loaded)
                /\ IF loaded
                   THEN /\ original_img' = f
                        /\ ti' = 1
                        /\ UNCHANGED <<fi, stats>>
                   ELSE /\ stats' = CountLoadFailure(stats)
                        /\ fi' = fi + 1
                        /\ UNCHANGED <<ti, original_img>>
    /\ UNCHANGED <<app, envVars, nonCliVars, entry, level, fs_dirs, fs_files, reports,
                   exited, exit_status>>

(* head of the type loop: stats entry and folder of the type *)
ProcType ==
    /\ app = "cli" /\ pc = "proc_type"
    /\ IF ti > Len(noise_types)
       THEN /\ fi' = fi + 1
            /\ pc' = "proc_file"
            /\ UNCHANGED <<ti, level, stats, fs_dirs>>
       ELSE /\ stats' = EnsureType(stats, noise_types[ti])
            /\ fs_dirs' = fs_dirs \cup {noise_types[ti]}
            /\ level' = 1
            /\ pc' = "proc_level"
            /\ UNCHANGED <<fi, ti>>
    /\ UNCHANGED <<app, envVars, nonCliVars, entry, original_img, fs_files, reports,
                   exited, exit_status, trace>>

(* one pass of the level loop: apply, name, save, count *)
ProcLevel ==
    /\ app = "cli" /\ pc = "proc_level"
    /\ IF level > noise_levels
       THEN /\ ti' = ti + 1
            /\ pc' = "proc_type"
            /\ UNCHANGED <<level, stats, fs_files, trace, exited, exit_status>>
       ELSE LET t == noise_types[ti]
                outcome == UnitOutcome(fail_pat, t, level)
                path == CliOutputPath(original_img, t, level)
                unit == [file |-> original_img, type |-> t, level |-> level]
                next == AfterUnit(outcome)
            IN  /\ trace' = Append(trace, [kind |-> "unit", unit |-> unit,
                                           outcome |-> outcome])
                /\ fs_files' = IF outcome = "ok"
                               THEN { w \in fs_files : w.path # path }
                                    \cup { [path |-> path, by |-> unit] }
                               ELSE fs_files
                /\ stats' = CountUnit(stats, t, outcome)
                /\ level' = level + 1
                /\ IF next = "crashed"
                   THEN Exit("crashed")
                   ELSE pc' = next /\ UNCHANGED <<exited, exit_status>>
                /\ UNCHANGED ti
    /\ UNCHANGED <<app, envVars, nonCliVars, entry, fi, original_img, fs_dirs, reports>>

(* return of process_images_with_noise *)
ProcReturn ==
    /\ app = "cli" /\ pc = "proc_return"
    /\ IF entry = "main"
       THEN pc' = "main_after" /\ UNCHANGED <<exited, exit_status>>
       ELSE Exit("done")
    /\ UNCHANGED <<app, envVars, nonCliVars, entry, fi, ti, level, original_img, stats,
                   fs_dirs, fs_files, reports, trace>>

(* main: "if stats: ... save_processing_report(stats, output_dir)" *)
MainAfter ==
    /\ app = "cli" /\ pc = "main_after"
    /\ reports' = IF Truthy(stats) THEN SaveProcessingReport(stats) ELSE reports
    /\ Exit("done")
    /\ UNCHANGED <<app, envVars, nonCliVars, entry, fi, ti, level, original_img, stats,
                   fs_dirs, fs_files, trace>>

(* The inputs of a command-line run.  Runs with the default level count   *)
(* (ten levels) are enumerated for one input file and no failing unit.     *)
InitEnvCli ==
    /\ input_exists \in BOOLEAN
    /\ selected_noise_types \in Selections
    /\ \/ /\ noise_levels \in 1..MaxLevels
          /\ dir_listing \in Listings(MaxFiles)
          /\ fail_pat \in FailPatterns
       \/ /\ noise_levels = DefaultLevels
          /\ dir_listing \in Listings(1)
          /\ fail_pat \in { p \in FailPatterns : p.type = "none" }
    /\ (~input_exists => dir_listing = <<>>)

InitCliVars ==
    /\ pc = IF entry = "main" THEN "main_check_dir" ELSE "proc_start"
    /\ fi = 0 /\ ti = 0 /\ level = 0
    /\ original_img = None
    /\ stats = None
    /\ fs_dirs = {}
    /\ fs_files = {}
    /\ reports = {}
    /\ exited = FALSE
    /\ exit_status = 0
    /\ trace = <<>>

InitCodecIdle ==
    /\ loaded_img = None /\ disk = None /\ backends = None /\ load_ret = None

InitNoiseIdle ==
    /\ image = None /\ noise_type = "none" /\ intensity = 0 /\ noisy = None
    /\ InitCodecIdle

InitBatch ==
    /\ app = "cli"
    /\ InitEnvCli
    /\ entry \in {"main", "direct"}
    /\ InitCliVars
    /\ InitNoiseIdle
    /\ InitGuiIdle

NextBatch ==
    \/ MainCheckDir
    \/ MainCheckFiles
    \/ ProcStart
    \/ ProcFile
    \/ ProcType
    \/ ProcLevel
    \/ ProcReturn
    \/ MainAfter

SpecBatch == InitBatch /\ [][NextBatch]_vars

----------------------------------------------------------------------------
(* Shapes of numpy arrays, as sequences of axis lengths, and the shape of   *)
(* what the array operations used by the noise models return.  "raise" is   *)
(* the shape of nothing: the operation raised.                              *)

Raise == <<-1>>

NDim(shape) == Len(shape)

(* np.transpose(a, axes): axes are numbered from 0 *)
Transpose(shape, axes) == [i \in 1..Len(axes) |-> shape[axes[i] + 1]]

Min(a, b) == IF a <= b THEN a ELSE b

(* a[:n] *)
TakeFirst(shape, n) == <<Min(n, shape[1])>> \o Tail(shape)

(* a[band] *)
BandOf(shape) == Tail(shape)

(* numpy broadcasting of two operands, aligned on the trailing axes *)
RECURSIVE PadOnes(_, _)
PadOnes(shape, n) == IF Len(shape) >= n THEN shape ELSE PadOnes(<<1>> \o shape, n)

Max(a, b) == IF a >= b THEN a ELSE b

Broadcast(sa, sb) ==
    LET n == Max(Len(sa), Len(sb))
        a == PadOnes(sa, n)
        b == PadOnes(sb, n)
    IN  IF \A i \in 1..n : a[i] = b[i] \/ a[i] = 1 \/ b[i] = 1
        THEN [i \in 1..n |-> Max(a[i], b[i])]
        ELSE Raise

(* target[...] = value: the value must broadcast to the target's shape *)
CanAssign(target, value) == value # Raise /\ Broadcast(target, value) = target

(* a[mask] = scalar: the boolean mask must have the shape of a *)
CanMask(target, mask) == target = mask

(* cv2.filter2D(src, -1, kernel): same size and channels as src *)
Filter2D(shape) == shape

(* cv2.imencode('.jpg', img): a JPEG with 1 channel (2-D input) or 3 *)
Imencode(shape) ==
    IF NDim(shape) = 2 THEN [h |-> shape[1], w |-> shape[2], channels |-> 1]
    ELSE IF NDim(shape) = 3 /\ shape[3] = 3
         THEN [h |-> shape[1], w |-> shape[2], channels |-> 3]
         ELSE [h |-> 0, w |-> 0, channels |-> 0]

(* Variant: the flag is ignored and the image is always decoded as colour *)
ImdecodeColor(enc, flag) == <<enc.h, enc.w, 3>>

(* cv2.imdecode(buf, flag): IMREAD_COLOR (1) gives (h, w, 3),               *)
(* IMREAD_GRAYSCALE (0) gives (h, w), IMREAD_UNCHANGED (-1) keeps the       *)
(* channels of the file                                                     *)
Imdecode(enc, flag) ==
    IF enc.channels = 0 THEN Raise
    ELSE CASE flag = 1  -> <<enc.h, enc.w, 3>>
           [] flag = 0  -> <<enc.h, enc.w>>
           [] OTHER     -> IF enc.channels = 1 THEN <<enc.h, enc.w>>
                           ELSE <<enc.h, enc.w, 3>>

(* cv2.cvtColor(img, COLOR_BGR2YUV / COLOR_YUV2BGR): needs 3 channels *)
CvtColor3(shape) ==
    IF NDim(shape) = 3 /\ shape[3] = 3 THEN shape ELSE Raise

IMREAD_UNCHANGED == -1
IMREAD_GRAYSCALE == 0
IMREAD_COLOR == 1

----------------------------------------------------------------------------
(* The eight noise models, by the shape of their result *)

(* image + np.random.normal(0, sigma, image.shape), clipped *)
AddGaussianNoise(shape, lvl) == Broadcast(shape, shape)

AddSaltPepperNoise(shape, lvl) ==
    IF NDim(shape) = 3
    THEN LET mask == <<shape[2], shape[3]>>
         IN  IF CanMask(BandOf(shape), mask) THEN shape ELSE Raise
    ELSE IF CanMask(shape, shape) THEN shape ELSE Raise

(* np.random.poisson(normalized / scale) has the shape of its argument *)
AddPoissonNoise(shape, lvl) == Broadcast(shape, <<>>)

AddSpeckleNoise(shape, lvl) == Broadcast(shape, Broadcast(<<>>, shape))

(* kernel_size = 3 + (intensity - 1) * 2 *)
KernelSize(lvl) == 3 + (lvl - 1) * 2

AddMotionBlurNoise(shape, lvl) ==
    IF NDim(shape) = 3
    THEN IF CanAssign(BandOf(shape), Filter2D(BandOf(shape))) THEN shape ELSE Raise
    ELSE Filter2D(shape)

AddAtmosphericNoise(shape, lvl) ==
    IF NDim(shape) = 3
    THEN LET haze == <<shape[2], shape[3]>>
             band == Broadcast(Broadcast(BandOf(shape), haze), haze)
         IN  IF CanAssign(BandOf(shape), band) THEN shape ELSE Raise
    ELSE Broadcast(Broadcast(shape, shape), shape)

AddCompressionArtifacts(shape, lvl) ==
    IF NDim(shape) = 3
    THEN IF shape[1] >= 3
         THEN LET rgb_bands == Transpose(TakeFirst(shape, 3), <<1, 2, 0>>)
                  compressed_rgb == Imdecode(Imencode(rgb_bands), IMREAD_COLOR)
              IN  IF /\ compressed_rgb # Raise
                     /\ CanAssign(TakeFirst(shape, 3),
                                  Transpose(compressed_rgb, <<2, 0, 1>>))
                  THEN shape ELSE Raise
         ELSE LET compressed_band ==
                      Imdecode(Imencode(BandOf(shape)), IMREAD_GRAYSCALE)
              IN  IF CanAssign(BandOf(shape), compressed_band) THEN shape ELSE Raise
    ELSE Imdecode(Imencode(shape), IMREAD_UNCHANGED)

AddIsoNoise(shape, lvl) ==
    IF NDim(shape) = 3
    THEN IF shape[1] >= 3
         THEN LET rgb_part == Transpose(TakeFirst(shape, 3), <<1, 2, 0>>)
                  yuv == CvtColor3(rgb_part)
                  plane == IF yuv = Raise THEN Raise ELSE <<yuv[1], yuv[2]>>
                  noisy_rgb == IF yuv # Raise /\ CanAssign(plane, plane)
                               THEN CvtColor3(yuv) ELSE Raise
              IN  IF /\ noisy_rgb # Raise
                     /\ CanAssign(TakeFirst(shape, 3),
                                  Transpose(noisy_rgb, <<2, 0, 1>>))
                     /\ CanAssign(BandOf(shape), BandOf(shape))
                  THEN shape ELSE Raise
         ELSE IF CanAssign(BandOf(shape), BandOf(shape)) THEN shape ELSE Raise
    ELSE Broadcast(shape, shape)

(* apply_noise: dispatch on the name; any other name raises ValueError *)
(* Variant: a name that matches no branch gets the image back unchanged *)
ReturnImage(shape) == shape

(* raise ValueError("Tipo di rumore non supportato: ...") *)
RaiseUnsupported(shape) == Raise

ApplyNoise(shape, t, lvl) ==
    CASE t = "gaussian"    -> AddGaussianNoise(shape, lvl)
      [] t = "salt_pepper" -> AddSaltPepperNoise(shape, lvl)
      [] t = "poisson"     -> AddPoissonNoise(shape, lvl)
      [] t = "speckle"     -> AddSpeckleNoise(shape, lvl)
      [] t = "motion_blur" -> AddMotionBlurNoise(shape, lvl)
      [] t = "atmospheric" -> AddAtmosphericNoise(shape, lvl)
      [] t = "compression" -> AddCompressionArtifacts(shape, lvl)
      [] t = "iso_noise"   -> AddIsoNoise(shape, lvl)
      [] OTHER             -> RaiseUnsupported(shape)

(* The names a caller can pass as noise_type: the eight of noise_types and *)
(* names that are not in the list (another spelling, another model)        *)
TypeNames == Range(noise_types) \cup {"Gaussian", "thermal"}

(* The 2-D and 3-D shapes with axes of 1..MaxDim *)
Shapes == [1..2 -> 1..MaxDim] \cup [1..3 -> 1..MaxDim]

InitCliIdle ==
    /\ input_exists = FALSE /\ dir_listing = <<>> /\ noise_levels = 0
    /\ selected_noise_types = <<>>
    /\ fail_pat = [type |-> "none", level |-> 0, kind |-> "ok"]
    /\ entry = "none"
    /\ pc = "idle"
    /\ fi = 0 /\ ti = 0 /\ level = 0
    /\ original_img = None
    /\ stats = None
    /\ fs_dirs = {}
    /\ fs_files = {}
    /\ reports = {}
    /\ exited = FALSE
    /\ exit_status = 0
    /\ trace = <<>>

InitNoise ==
    /\ app = "noise"
    /\ InitCliIdle
    /\ InitGuiIdle
    /\ image \in { [shape |-> sh] : sh \in Shapes }
    /\ noise_type \in TypeNames
    /\ intensity \in 1..MaxIntensity
    /\ noisy = None
    /\ InitCodecIdle

(* noisy = noise_gen.apply_noise(image, noise_type, intensity) *)
CallApplyNoise ==
    /\ app = "noise" /\ noisy = None
    /\ LET out == ApplyNoise(image.shape, noise_type, intensity)
       IN  noisy' = IF out = Raise THEN [raised |-> TRUE, shape |-> <<>>]
                    ELSE [raised |-> FALSE, shape |-> out]
    /\ UNCHANGED <<app, envVars, cliVars, guiVars, image, noise_type, intensity, codecVars>>

(* the caller goes on to another type and level of the same image *)
NextCall ==
    /\ app = "noise" /\ noisy # None
    /\ noise_type' \in TypeNames
    /\ intensity' \in 1..MaxIntensity
    /\ noisy' = None
    /\ UNCHANGED <<app, envVars, cliVars, guiVars, image, codecVars>>

NextNoise == CallApplyNoise \/ NextCall

SpecNoise == InitNoise /\ [][NextNoise]_vars

(* apply_noise called on its own, or by the command-line pipeline *)
InitUnits == InitNoise \/ InitBatch

NextUnits == NextNoise \/ NextBatch

SpecUnits == InitUnits /\ [][NextUnits]_vars

----------------------------------------------------------------------------
(* The noise models on pixel values.                                       *)
(* A tensor is [shape, dtype, data]: data is the sequence of its planes    *)
(* (one per band for a (bands, height, width) tensor, a single one for a   *)
(* (height, width) tensor), every plane the row of its PixWidth pixels.    *)
(* Values are whole pixel units.                                           *)

PixWidth == 2

Pixels == 1..PixWidth

Tensor(shape, dtype, data) == [shape |-> shape, dtype |-> dtype, data |-> data]

Shape2D == <<1, PixWidth>>

Shape3D(bands) == <<bands, 1, PixWidth>>

Values(t) == { t.data[b][x] : b \in DOMAIN t.data, x \in Pixels }

SetMin(S) == CHOOSE v \in S : \A u \in S : v <= u

SetMax(S) == CHOOSE v \in S : \A u \in S : v >= u

(* image.min(), image.max() *)
ImgMin(t) == SetMin(Values(t))

ImgMax(t) == SetMax(Values(t))

(* np.clip on one value *)
Clip(v, lo, hi) == IF v < lo THEN lo ELSE IF v > hi THEN hi ELSE v

(* an elementwise operation f(band, pixel) giving a new array *)
MapData(t, f(_, _)) == [b \in DOMAIN t.data |-> [x \in Pixels |-> f(b, x)]]

(* numpy's result type of an operation on two float arrays *)
Promote(a, b) == IF "float64" \in {a, b} THEN "float64" ELSE "float32"

(* what a call of a model gives back: the returned tensor (or the          *)
(* exception), the array that was passed in as it is after the call, the   *)
(* parameter computed from the level, the bands of each encode call,       *)
(* whether a division by zero was evaluated, and the salt and pepper masks *)
(* the call drew                                                           *)
Returned(out, input, param) ==
    [raised |-> FALSE, out |-> out, input |-> input, param |-> param,
     encoded |-> <<>>, div_by_zero |-> FALSE, masks |-> None]

Raised(input, param, div0) ==
    [raised |-> TRUE, out |-> None, input |-> input, param |-> param,
     encoded |-> <<>>, div_by_zero |-> div0, masks |-> None]

(* The values one call draws from np.random, and how the build converts a  *)
(* float above 255 to uint8 (the conversion is undefined in C: x86 builds  *)
(* wrap modulo 256, others saturate).                                      *)
(* g: one standard draw per pixel (-1, 0 or 1 times a step);               *)
(* salt, pepper: the pixels where the uniform draw is below prob / 2.      *)
Draws ==
    [g : [Pixels -> {-1, 0, 1}], salt : SUBSET Pixels, pepper : SUBSET Pixels,
     cast : {"wrap", "saturate"}]

(* a draw of N(0, sigma) three hundred units away from the mean; a normal  *)
(* of deviation 0 always gives 0                                           *)
NormalStep == 300

Normal(sigma_is_zero, g) == IF sigma_is_zero THEN 0 ELSE g * NormalStep

(* ndarray.copy() gives a new array *)
CopyIsNew == TRUE

(* Variant: astype gives back the array itself when the type is unchanged  *)
(* (astype with copy=False)                                                *)
AstypeShares == FALSE

(* ndarray.astype() gives a new array, even for the type the array has *)
AstypeIsNew == TRUE

(* the caller's array after a call that wrote into buf element by element: *)
(* untouched when buf is a new array, overwritten when buf is the array    *)
InputAfter(img, buf, fresh) == IF fresh THEN img ELSE Tensor(img.shape, img.dtype, buf)

(* float -> uint8 of a non-negative value *)
CastUint8(v, cast) ==
    IF v <= 255 THEN v
    ELSE IF cast = "wrap" THEN v % 256 ELSE 255

(* ---- gaussian ---- *)

(* base_sigma = 5 + (intensity - 1) * 5 *)
GaussianBaseSigma(lvl) == 5 + (lvl - 1) * 5

add_gaussian_noise(img, lvl, rnd) ==
    LET img_min == ImgMin(img)
        img_max == ImgMax(img)
        img_range == img_max - img_min
        base_sigma == GaussianBaseSigma(lvl)
        (* sigma = base_sigma * (img_range / 255.0) is 0 iff img_range is *)
        noisy_px(b, x) == img.data[b][x] + Normal(img_range = 0, rnd.g[x])
        clipped(b, x) == Clip(noisy_px(b, x), img_min, img_max)
    IN  Returned(Tensor(img.shape, Promote("float32", "float32"),
                        MapData(img, clipped)),
                 img, base_sigma)

(* ---- salt_pepper ---- *)

(* prob = 0.001 + (intensity - 1) * 0.001, in thousandths *)
SaltPepperProb(lvl) == 1 + (lvl - 1) * 1

(* Variant: every band draws its own masks (the masks of band b are the   *)
(* drawn ones moved by b pixels)                                           *)
BandMaskShifted(mask, b) == { ((x + b) % PixWidth) + 1 : x \in mask }

(* the mask used for band b: one (height, width) mask for all bands *)
BandMask(mask, b) == mask

(* Variant: the pepper assignment comes first, so salt wins on a pixel    *)
(* of both masks                                                           *)
PepperThenSalt(v, in_salt, in_pepper, img_min, img_max) ==
    IF in_salt THEN img_max ELSE IF in_pepper THEN img_min ELSE v

(* noisy[salt_mask] = img_max, then noisy[pepper_mask] = img_min *)
SaltThenPepper(v, in_salt, in_pepper, img_min, img_max) ==
    IF in_pepper THEN img_min ELSE IF in_salt THEN img_max ELSE v

add_salt_pepper_noise(img, lvl, rnd) ==
    LET img_min == ImgMin(img)
        img_max == ImgMax(img)
        noisy_px(b, x) ==
            SaltThenPepper(img.data[b][x], x \in BandMask(rnd.salt, b),
                           x \in BandMask(rnd.pepper, b), img_min, img_max)
        buf == MapData(img, noisy_px)
    IN  [Returned(Tensor(img.shape, "float32", buf),
                  InputAfter(img, buf, CopyIsNew \/ AstypeIsNew), SaltPepperProb(lvl))
            EXCEPT !.masks = [salt |-> rnd.salt, pepper |-> rnd.pepper]]

(* ---- poisson ---- *)

(* scale = 0.1 + (intensity - 1) * 0.1, in tenths *)
PoissonScale(lvl) == 1 + (lvl - 1) * 1

(* a draw of np.random.poisson: 0, the mean's neighbourhood, or far above *)
PoissonCount(g) == CASE g = -1 -> 0 [] g = 0 -> 1 [] OTHER -> 20

add_poisson_noise(img, lvl, rnd) ==
    LET scale == PoissonScale(lvl)
        img_min == ImgMin(img)
        img_max == ImgMax(img)
        img_range == img_max - img_min
        (* noisy = poisson(normalized / scale) * scale, then             *)
        (* noisy * (img_max - img_min) + img_min                          *)
        rescaled(b, x) == (PoissonCount(rnd.g[x]) * scale * img_range) \div 10 + img_min
        clipped(b, x) == Clip(rescaled(b, x), img_min, img_max)
    IN  IF img_range = 0
        THEN (* 0 / 0 gives NaN, and np.random.poisson rejects a NaN rate *)
             Raised(img, scale, TRUE)
        ELSE Returned(Tensor(img.shape,
                             Promote(Promote("float64", "float32"), "float32"),
                             MapData(img, clipped)),
                      img, scale)

(* ---- speckle ---- *)

(* variance = 0.05 + (intensity - 1) * 0.05, in hundredths *)
SpeckleVariance(lvl) == 5 + (lvl - 1) * 5

add_speckle_noise(img, lvl, rnd) ==
    LET variance == SpeckleVariance(lvl)
        img_min == ImgMin(img)
        img_max == ImgMax(img)
        (* noise = N(0, variance ** 0.5), here -1.5, 0 or 1.5 *)
        noisy_px(b, x) == (img.data[b][x] * (100 + 150 * rnd.g[x])) \div 100
        clipped(b, x) == Clip(noisy_px(b, x), img_min, img_max)
    IN  Returned(Tensor(img.shape, Promote("float32", "float64"),
                        MapData(img, clipped)),
                 img, variance)

(* ---- motion_blur ---- *)

(* Variant: the kernel grows by one per level *)
MotionKernelSizeUnit(lvl) == 3 + (lvl - 1) * 1

(* kernel_size = 3 + (intensity - 1) * 2 *)
MotionKernelSize(lvl) == 3 + (lvl - 1) * 2

(* cv2.BORDER_REFLECT_101: the pixel read at position i of a row of n *)
RECURSIVE Reflect101(_, _)
Reflect101(i, n) ==
    IF n = 1 THEN 1
    ELSE IF i < 1 THEN Reflect101(2 - i, n)
    ELSE IF i > n THEN Reflect101(2 * n - i, n)
    ELSE i

RECURSIVE SumTaps(_, _, _, _)
SumTaps(row, x, from, to) ==
    IF from > to THEN 0
    ELSE row[Reflect101(x + from, Len(row))] + SumTaps(row, x, from + 1, to)

(* cv2.filter2D of a uint8 row with the horizontal line kernel: the mean   *)
(* of kernel_size neighbours, rounded                                      *)
LineFilter(row, k) ==
    [x \in DOMAIN row |->
        (2 * SumTaps(row, x, -((k - 1) \div 2), (k - 1) \div 2) + k) \div (2 * k)]

add_motion_blur_noise(img, lvl, rnd) ==
    LET kernel_size == MotionKernelSize(lvl)
        band_img(b) == [x \in Pixels |-> CastUint8(img.data[b][x], rnd.cast)]
        blurred == [b \in DOMAIN img.data |-> LineFilter(band_img(b), kernel_size)]
    IN  Returned(Tensor(img.shape, "float32", blurred), img, kernel_size)

(* ---- atmospheric ---- *)

(* haze_intensity = 0.1 + (intensity - 1) * 0.1, in tenths *)
HazeIntensity(lvl) == 1 + (lvl - 1) * 1

(* np.clip(N(0.8, 0.1), 0.5, 1.0), in hundredths *)
Haze(g) == CASE g = -1 -> 50 [] g = 0 -> 80 [] OTHER -> 100

add_atmospheric_noise(img, lvl, rnd) ==
    LET haze_intensity == HazeIntensity(lvl)
        img_min == ImgMin(img)
        img_max == ImgMax(img)
        hazed(b, x) ==
            (img.data[b][x] * Haze(rnd.g[x])) \div 100
              + (img_max * (100 - Haze(rnd.g[x])) * haze_intensity) \div 1000
        clipped(b, x) == Clip(hazed(b, x), img_min, img_max)
    IN  IF Len(img.shape) = 3
        THEN (* atmospheric[band] = ... writes into image.astype(float32) *)
             Returned(Tensor(img.shape, "float32", MapData(img, clipped)),
                      InputAfter(img, MapData(img, hazed), AstypeIsNew),
                      haze_intensity)
        ELSE Returned(Tensor(img.shape, Promote("float32", "float64"),
                             MapData(img, clipped)),
                      img, haze_intensity)

(* ---- compression ---- *)

(* quality = 95 - (intensity - 1) * 5 *)
JpegQuality(lvl) == 95 - (lvl - 1) * 5

(* a lossy encode/decode of a uint8 sample: off by at most one unit here *)
JpegRoundTrip(v, g) == Clip(v + g, 0, 255)

(* Variant: every band goes through the codec *)
ColourBandsAll(bands) == 1..bands

(* image[:3] *)
ColourBands(bands) == 1..Min(3, bands)

add_compression_artifacts(img, lvl, rnd) ==
    LET quality == JpegQuality(lvl)
        bands == Len(img.data)
        coded(b, x) == JpegRoundTrip(CastUint8(img.data[b][x], rnd.cast), rnd.g[x])
        rgb == ColourBands(bands)
        triple(b, x) == IF b \in rgb THEN coded(b, x) ELSE img.data[b][x]
        result(data, calls) ==
            [Returned(Tensor(img.shape, "float32", data), img, quality)
                EXCEPT !.encoded = calls]
    IN  IF Len(img.shape) = 3
        THEN IF bands >= 3
             THEN result(MapData(img, triple), <<rgb>>)
             ELSE result(MapData(img, coded), [b \in 1..bands |-> {b}])
        ELSE result(MapData(img, coded), <<{1}>>)

(* ---- iso_noise ---- *)

(* sigma_luma = 5 + (intensity - 1) * 10 *)
SigmaLuma(lvl) == 5 + (lvl - 1) * 10

(* sigma_chroma = 2 + (intensity - 1) * 3 *)
SigmaChroma(lvl) == 2 + (lvl - 1) * 3

(* a sample of the first three bands after uint8 -> YUV -> noise ->        *)
(* clip(0, img_max) -> uint8 -> BGR: some uint8 value, here the darkest,   *)
(* the input's own uint8 value or the brightest                            *)
YuvNoisy(v, g, cast) == CASE g = -1 -> 0 [] g = 0 -> CastUint8(v, cast) [] OTHER -> 255

add_iso_noise(img, lvl, rnd) ==
    LET sigmas == [luma |-> SigmaLuma(lvl), chroma |-> SigmaChroma(lvl)]
        img_min == ImgMin(img)
        img_max == ImgMax(img)
        bands == Len(img.data)
        plain(b, x) == img.data[b][x] + Normal(FALSE, rnd.g[x])
        mixed(b, x) ==
            IF bands >= 3 /\ b <= 3
            THEN YuvNoisy(img.data[b][x], rnd.g[x], rnd.cast)
            ELSE plain(b, x)
        clip_mixed(b, x) == Clip(mixed(b, x), img_min, img_max)
        clip_plain(b, x) == Clip(plain(b, x), img_min, img_max)
    IN  IF Len(img.shape) = 3
        THEN Returned(Tensor(img.shape, "float32", MapData(img, clip_mixed)),
                      InputAfter(img, MapData(img, mixed), CopyIsNew \/ AstypeIsNew),
                      sigmas)
        ELSE Returned(Tensor(img.shape, Promote("float32", "float64"),
                             MapData(img, clip_plain)),
                      img, sigmas)

(* ---- NoiseGenerator.apply_noise on values ---- *)
apply_noise(img, t, lvl, rnd) ==
    CASE t = "gaussian"    -> add_gaussian_noise(img, lvl, rnd)
      [] t = "salt_pepper" -> add_salt_pepper_noise(img, lvl, rnd)
      [] t = "poisson"     -> add_poisson_noise(img, lvl, rnd)
      [] t = "speckle"     -> add_speckle_noise(img, lvl, rnd)
      [] t = "motion_blur" -> add_motion_blur_noise(img, lvl, rnd)
      [] t = "atmospheric" -> add_atmospheric_noise(img, lvl, rnd)
      [] t = "compression" -> add_compression_artifacts(img, lvl, rnd)
      [] t = "iso_noise"   -> add_iso_noise(img, lvl, rnd)
      [] OTHER             -> Raised(img, 0, FALSE)

----------------------------------------------------------------------------
(* load_multiband_image and save_multiband_image.                          *)
(* A file is [ext, count, height, width, series_shape, dtype, data]:       *)
(* count bands of height x width samples; series_shape is the shape of the *)
(* array tifffile.imread gives for it.  The libraries of an installation   *)
(* are [rasterio, tifffile, pil: importable or not; fail: the readers      *)
(* that cannot read the file; wfail: the writers that cannot write it].    *)

Readers == <<"rasterio", "tifffile", "pil", "cv2">>

Writers == <<"rasterio", "tifffile", "cv2">>

(* file_path.lower().endswith(('.tif', '.tiff')) *)
IsTiffExt(ext) == Lower(ext) \in {".tif", ".tiff"}

(* src.read() for several bands, src.read(1) for one *)
RasterioShape(file) ==
    IF file.count > 1 THEN <<file.count, file.height, file.width>>
    ELSE <<file.height, file.width>>

(* np.array(PIL image) and cv2.imread(path, IMREAD_UNCHANGED): rows,       *)
(* columns and, for more than one channel, the channels last               *)
ChannelsLastShape(file) ==
    IF file.count > 1 THEN <<file.height, file.width, file.count>>
    ELSE <<file.height, file.width>>

(* the tifffile branch: a small third axis is taken for the bands *)
NormalizeTifffile(shape) ==
    IF NDim(shape) = 3 /\ shape[3] <= 10 THEN Transpose(shape, <<2, 0, 1>>)
    ELSE shape

(* the PIL and OpenCV branches: np.expand_dims(image, axis=-1) for a 2-D   *)
(* array, the transposition for a small third axis                         *)
NormalizeTrailing(shape) ==
    IF NDim(shape) = 2 THEN shape \o <<1>>
    ELSE IF NDim(shape) = 3 /\ shape[3] <= 10 THEN Transpose(shape, <<2, 0, 1>>)
    ELSE shape

(* the shape each reader returns for a file it can read *)
ReadShape(reader, file) ==
    CASE reader = "rasterio" -> RasterioShape(file)
      [] reader = "tifffile" -> NormalizeTifffile(file.series_shape)
      [] OTHER               -> NormalizeTrailing(ChannelsLastShape(file))

(* whether the code reaches the reader at all: the guards of its branch *)
Applicable(reader, file, be) ==
    CASE reader = "rasterio" -> be.rasterio /\ IsTiffExt(file.ext)
      [] reader = "tifffile" -> be.tifffile
      [] reader = "pil"      -> be.pil /\ IsTiffExt(file.ext)
      [] OTHER               -> TRUE

(* Variant: a reader's result is kept but the later readers are tried too *)
RECURSIVE TryReadersAll(_, _, _, _)
TryReadersAll(i, file, be, consulted) ==
    IF i > Len(Readers) THEN [consulted |-> consulted, reader |-> "none"]
    ELSE IF ~Applicable(Readers[i], file, be)
         THEN TryReadersAll(i + 1, file, be, consulted)
         ELSE LET rest == TryReadersAll(i + 1, file, be, Append(consulted, Readers[i]))
              IN  IF Readers[i] \notin be.fail /\ rest.reader = "none"
                  THEN [consulted |-> rest.consulted, reader |-> Readers[i]]
                  ELSE rest

(* the chain of try blocks: each branch returns on success and falls to    *)
(* the next one on an exception (or, for OpenCV, on a None result)         *)
RECURSIVE TryReaders(_, _, _, _)
TryReaders(i, file, be, consulted) ==
    IF i > Len(Readers) THEN [consulted |-> consulted, reader |-> "none"]
    ELSE IF ~Applicable(Readers[i], file, be)
         THEN TryReaders(i + 1, file, be, consulted)
         ELSE IF Readers[i] \notin be.fail
              THEN [consulted |-> Append(consulted, Readers[i]), reader |-> Readers[i]]
              ELSE TryReaders(i + 1, file, be, Append(consulted, Readers[i]))

load_multiband_image(file, be) ==
    LET tried == TryReaders(1, file, be, <<>>)
    IN  IF tried.reader = "none"
        THEN [raised |-> TRUE, tensor |-> None, reader |-> "none",
              consulted |-> tried.consulted]
        ELSE [raised |-> FALSE,
              tensor |-> Tensor(ReadShape(tried.reader, file), "float32", file.data),
              reader |-> tried.reader, consulted |-> tried.consulted]

(* the conversion at the head of save_multiband_image *)
SaveSamples(img) ==
    LET to8(b, x) == Clip(img.data[b][x], 0, 255)
        to16(b, x) == Clip(img.data[b][x], 0, 65535)
    IN  IF img.dtype = "float32"
        THEN IF ImgMax(img) <= 255
             THEN Tensor(img.shape, "uint8", MapData(img, to8))
             ELSE Tensor(img.shape, "uint16", MapData(img, to16))
        ELSE img

File(ext, count, height, width, series_shape, t) ==
    [ext |-> ext, count |-> count, height |-> height, width |-> width,
     series_shape |-> series_shape, dtype |-> t.dtype, data |-> t.data]

(* what each writer puts on disk for an array it can write *)
Written(writer, t, ext) ==
    CASE writer = "rasterio" ->
            IF NDim(t.shape) = 3
            THEN File(ext, t.shape[1], t.shape[2], t.shape[3],
                      IF t.shape[1] > 1 THEN t.shape ELSE Tail(t.shape), t)
            ELSE File(ext, 1, t.shape[1], t.shape[2], t.shape, t)
      [] writer = "tifffile" ->
            IF NDim(t.shape) = 3
            THEN File(ext, t.shape[1], t.shape[2], t.shape[3], t.shape, t)
            ELSE File(ext, 1, t.shape[1], t.shape[2], t.shape, t)
      [] OTHER ->
            (* cv2.imwrite takes the axes as rows, columns, channels *)
            IF NDim(t.shape) = 3 /\ t.shape[3] > 1
            THEN File(ext, t.shape[3], t.shape[1], t.shape[2], t.shape, t)
            ELSE File(ext, 1, t.shape[1], t.shape[2], <<t.shape[1], t.shape[2]>>, t)

(* whether the code reaches the writer: rasterio for TIFF names only *)
WriterApplicable(writer, ext, be) ==
    CASE writer = "rasterio" -> be.rasterio /\ IsTiffExt(ext)
      [] writer = "tifffile" -> be.tifffile
      [] OTHER               -> TRUE

RECURSIVE TryWriters(_, _, _, _)
TryWriters(i, t, ext, be) ==
    IF i > Len(Writers) THEN [ok |-> FALSE, file |-> None, writer |-> "none"]
    ELSE IF WriterApplicable(Writers[i], ext, be) /\ Writers[i] \notin be.wfail
         THEN [ok |-> TRUE, file |-> Written(Writers[i], t, ext), writer |-> Writers[i]]
         ELSE TryWriters(i + 1, t, ext, be)

(* the metadata copied from original_path changes no sample and no shape *)
save_multiband_image(img, ext, be) == TryWriters(1, SaveSamples(img), ext, be)

----------------------------------------------------------------------------
(* The noise models called on small images, and their results saved *)

PixelValues == {0, 200, 1000}

(* band b of an image is its first band plus (b - 1) * step *)
PixelImage(shape, row, step) ==
    Tensor(shape, "float32",
           [b \in 1..(IF Len(shape) = 3 THEN shape[1] ELSE 1) |->
               [x \in Pixels |-> row[x] + (b - 1) * step]])

(* what load_multiband_image can return: float32, (height, width) or      *)
(* (bands, height, width)                                                  *)
PixelImages ==
    { PixelImage(shape, row, step) :
        shape \in {Shape2D} \cup { Shape3D(n) : n \in 1..MaxBands },
        row \in [Pixels -> PixelValues],
        step \in {0, 7} }

AllLibraries ==
    [rasterio |-> TRUE, tifffile |-> TRUE, pil |-> TRUE, fail |-> {}, wfail |-> {}]

OutputExts == {".tif", ".jpg"}

InitPixels ==
    /\ app = "pixels"
    /\ InitCliIdle
    /\ InitGuiIdle
    /\ image \in PixelImages
    /\ loaded_img = image
    /\ noise_type \in Range(noise_types)
    /\ intensity \in 1..MaxIntensity
    /\ noisy = None
    /\ disk = None
    /\ backends = AllLibraries
    /\ load_ret = None

(* noisy_image = noise_gen.apply_noise(image, noise_type, level) *)
CallNoise ==
    /\ app = "pixels" /\ noisy = None
    /\ \E rnd \in Draws :
          LET ret == apply_noise(image, noise_type, intensity, rnd)
          IN  /\ noisy' = ret
              /\ image' = ret.input
    /\ UNCHANGED <<app, envVars, cliVars, guiVars, noise_type, intensity, codecVars>>

(* save_multiband_image(noisy_image, output_path, original_path) *)
SaveNoisy ==
    /\ app = "pixels" /\ noisy # None /\ ~noisy.raised /\ disk = None
    /\ \E ext \in OutputExts :
          LET ret == save_multiband_image(noisy.out, ext, backends)
          IN  /\ ret.ok
              /\ disk' = ret.file
    /\ UNCHANGED <<app, envVars, cliVars, guiVars, image, noise_type, intensity, noisy,
                   loaded_img, backends, load_ret>>

(* the loops go on to another type and level of the same loaded image *)
NextUnit ==
    /\ app = "pixels" /\ noisy # None
    /\ noise_type' \in Range(noise_types)
    /\ intensity' \in 1..MaxIntensity
    /\ noisy' = None
    /\ disk' = None
    /\ UNCHANGED <<app, envVars, cliVars, guiVars, image, loaded_img, backends, load_ret>>

NextPixels == CallNoise \/ SaveNoisy \/ NextUnit

SpecPixels == InitPixels /\ [][NextPixels]_vars

----------------------------------------------------------------------------
(* Files loaded, tensors saved and loaded back *)

RasterSide == 64

BandCounts == {1, 3, 5, 12}

(* an 8-bit and a 16-bit row of samples *)
SampleRows ==
    { [x \in Pixels |-> 10 + 190 * (x - 1)], [x \in Pixels |-> 300 + 3700 * (x - 1)] }

Installations ==
    [rasterio : BOOLEAN, tifffile : BOOLEAN, pil : BOOLEAN,
     fail : SUBSET Range(Readers), wfail : SUBSET Range(Writers)]

SampleData(count, row) == [b \in 1..count |-> [x \in Pixels |-> row[x] + (b - 1)]]

(* tifffile.imread of a file: bands first (separate planes), bands last    *)
(* (contiguous samples), or no band axis for a single band                 *)
SeriesShapes(n) ==
    IF n = 1 THEN { <<RasterSide, RasterSide>> }
    ELSE { <<n, RasterSide, RasterSide>>, <<RasterSide, RasterSide, n>> }

(* the image files a run can meet *)
CodecFiles ==
    UNION { { [ext |-> ext, count |-> n, height |-> RasterSide, width |-> RasterSide,
               series_shape |-> sh,
               dtype |-> IF row[PixWidth] > 255 THEN "uint16" ELSE "uint8",
               data |-> SampleData(n, row)] :
                ext \in {".tif", ".TIFF", ".png"}, row \in SampleRows,
                sh \in SeriesShapes(n) } : n \in BandCounts }

(* the tensors handed to save_multiband_image *)
CodecTensors ==
    { Tensor(shape, dtype, SampleData(IF Len(shape) = 3 THEN shape[1] ELSE 1, row)) :
        shape \in { <<RasterSide, RasterSide>>, <<1, RasterSide, RasterSide>>,
                    <<5, RasterSide, RasterSide>> },
        dtype \in {"float32", "float64"},
        row \in SampleRows }

InitCodec ==
    /\ app = "codec"
    /\ InitCliIdle
    /\ InitGuiIdle
    /\ noise_type = "none" /\ intensity = 0 /\ noisy = None
    /\ loaded_img = None
    /\ load_ret = None
    /\ backends \in Installations
    /\ \/ /\ image = None
          /\ disk \in CodecFiles
          /\ backends.wfail = {}
       \/ /\ image \in CodecTensors
          /\ disk = None

(* save_multiband_image(image, path) *)
SaveCall ==
    /\ app = "codec" /\ image # None /\ disk = None
    /\ \E ext \in OutputExts :
          LET ret == save_multiband_image(image, ext, backends)
          IN  /\ ret.ok
              /\ disk' = ret.file
    /\ UNCHANGED <<app, envVars, cliVars, guiVars, image, noise_type, intensity, noisy,
                   loaded_img, backends, load_ret>>

(* load_multiband_image(path) *)
LoadCall ==
    /\ app = "codec" /\ disk # None /\ load_ret = None
    /\ LET ret == load_multiband_image(disk, backends)
       IN  /\ load_ret' = ret
           /\ loaded_img' = ret.tensor
    /\ UNCHANGED <<app, envVars, cliVars, guiVars, image, noise_type, intensity, noisy,
                   disk, backends>>

NextCodec == SaveCall \/ LoadCall

SpecCodec == InitCodec /\ [][NextCodec]_vars

----------------------------------------------------------------------------
(* The GUI: file selection *)

(* sorted(paths): the files in name order (CandidateFiles is in name order) *)
SortedByName(files) ==
    Pick(CandidateFiles, { i \in DOMAIN CandidateFiles : CandidateFiles[i] \in Range(files) }, 1)

tiff_patterns == <<".tif", ".tiff", ".TIF", ".TIFF">>

(* FileSelector._find_tiff_files: one glob per pattern, then sorted *)
FindTiffFiles(listing) ==
    SortedByName(Concat([i \in DOMAIN tiff_patterns |-> SelectExt(listing, tiff_patterns[i])]))

(* FileSelector.has_selection: selected_paths is not empty *)
HasSelection == selection_type # "none"

(* files_to_process of generate_noise_thread *)
FilesToProcess ==
    CASE selection_type \in {"single_file", "multiple_files"} -> dir_listing
      [] selection_type = "folder" -> FindTiffFiles(dir_listing)
      [] OTHER -> <<>>

(* generate_noise_thread names every output .tif *)
GuiOutputPath(f, t, l) == OutputPath(t, OutputFilename(Stem(f), t, l, ".tif"))

(* total_operations = len(files_to_process) * len(noise_types) * levels *)
TotalOperations(files, types, n) == Len(files) * Len(types) * n

(* progress = (current_operation / total_operations) * 100, as a fraction *)
Progress(cur, total) == <<cur * 100, total>>

Percent(n) == <<n, 1>>

(* p <= q for fractions with positive denominators *)
FracLeq(p, q) == p[1] * q[2] <= q[1] * p[2]

----------------------------------------------------------------------------
(* The GUI: controls and main window, on the interactive thread *)

(* NoiseControls._start_generation, up to the callback *)
ControlsStarted(c) ==
    [c EXCEPT !.generation_active = TRUE, !.generate_button = "disabled",
              !.stop_button = "normal", !.status_label = "Generazione in corso...",
              !.progress_var = Percent(0)]

(* NoiseControls._generation_finished *)
ControlsFinished(c) ==
    [c EXCEPT !.generation_active = FALSE, !.generate_button = "normal",
              !.stop_button = "disabled", !.status_label = "Pronto",
              !.progress_var = Percent(0)]

(* NoiseControls.update_progress *)
ControlsProgress(c, p, status) ==
    [c EXCEPT !.progress_var = p, !.status_label = status]

(* MainWindow.on_generate_noise: the two checks that reject a request *)
OnGenerateAccepts == HasSelection /\ current_project_path # None

Alive(w) == workers[w].pc \notin {"unborn", "dead"}

(* thread w of the session is at position at *)
At(w, at) == app = "gui" /\ w \in DOMAIN workers /\ workers[w].pc = at

(* the next thread of the session *)
FreeRun(w) ==
    /\ At(w, "unborn")
    /\ \A v \in DOMAIN workers : v < w => workers[v].pc # "unborn"

(* click on Generate: _start_generation, then on_generate_noise *)
PressGenerate ==
    /\ app = "gui"
    /\ noise_controls.generate_button = "normal"
    /\ selected_noise_types # <<>>
    /\ noise_controls' = ControlsStarted(noise_controls)
    /\ IF OnGenerateAccepts
       THEN \E w \in Runs :
              /\ FreeRun(w)
              /\ generation_active' = TRUE
              /\ workers' = [workers EXCEPT ![w] =
                    [Unborn EXCEPT !.pc = "start",
                                   !.types = selected_noise_types,
                                   !.levels = noise_levels]]
       ELSE UNCHANGED <<generation_active, workers>>
    /\ UNCHANGED <<app, envVars, cliVars, noiseVars, selection_type,
                   current_project_path, tk_queue, worker_tk_calls,
                   processing_history, shown>>

(* click on Stop: NoiseControls._stop_generation *)
PressStop ==
    /\ app = "gui"
    /\ noise_controls.stop_button = "normal"
    /\ noise_controls' = ControlsFinished(noise_controls)
    /\ workers' = [w \in DOMAIN workers |->
                     IF Alive(w) THEN [workers[w] EXCEPT !.stop_requested = TRUE]
                     ELSE workers[w]]
    /\ UNCHANGED <<app, envVars, cliVars, noiseVars, selection_type,
                   current_project_path, generation_active, tk_queue,
                   worker_tk_calls, processing_history, shown>>

(* the event loop runs the oldest callback queued with root.after(0, ...) *)
TkDispatch ==
    /\ app = "gui"
    /\ tk_queue # <<>>
    /\ LET ev == Head(tk_queue)
       IN  /\ tk_queue' = Tail(tk_queue)
           /\ CASE ev.kind = "update_progress" ->
                     /\ noise_controls' = ControlsProgress(noise_controls, ev.p, ev.status)
                     /\ shown' = [shown EXCEPT ![ev.run] = <<ev>>]
                     /\ UNCHANGED <<generation_active, workers>>
                [] ev.kind = "generation_finished" ->
                     /\ generation_active' = FALSE
                     /\ noise_controls' = ControlsFinished(noise_controls)
                     /\ workers' = [workers EXCEPT ![ev.run].finished_calls = @ + 1]
                     /\ UNCHANGED shown
                [] OTHER ->
                     UNCHANGED <<generation_active, noise_controls, shown, workers>>
    /\ UNCHANGED <<app, envVars, cliVars, noiseVars, selection_type,
                   current_project_path, worker_tk_calls, processing_history>>

----------------------------------------------------------------------------
(* The GUI: MainWindow.generate_noise_thread, on a worker thread *)

(* Variant: the callback is put in front of the pending ones *)
PostFront(q, ev) == <<ev>> \o q

(* self.root.after(0, callback) *)
Post(q, ev) == Append(q, ev)

(* MainWindow.log: print, then self.root.update_idletasks() *)
LogCalls == {"update_idletasks"}

AfterCalls == {"after"}

ProgressEvent(w, p, status, done) ==
    [kind |-> "update_progress", run |-> w, p |-> p, status |-> status,
     units_done |-> done]

FinishedEvent(w) == [kind |-> "generation_finished", run |-> w]

LoadResultEvent(w) == [kind |-> "load_generated_result", run |-> w]

(* history of a worker's loads and units, as in the pipeline's trace *)
LoadEvent(f, ok) == [kind |-> "load", file |-> f, ok |-> ok]

UnitEvent(f, t, l, outcome) ==
    [kind |-> "unit", unit |-> [file |-> f, type |-> t, level |-> l], outcome |-> outcome]

Logged(me, ev) == [me EXCEPT !.log = Append(@, ev)]

(* for file_path in files_to_process: the next file *)
NextFile(me) == [me EXCEPT !.fi = @ + 1, !.pc = "file"]

(* Variant: the type loop ends after its first pass *)
NextTypeFirstOnly(me) == [me EXCEPT !.pc = "viewer"]

(* for noise_type in noise_types: the next type, or the code after the loop *)
NextType(me) ==
    IF me.ti < Len(me.types)
    THEN [me EXCEPT !.ti = @ + 1, !.pc = "type"]
    ELSE [me EXCEPT !.pc = "viewer"]

(* for level in range(1, levels + 1): the next level, or the next type *)
NextLevel(me) ==
    IF me.level < me.levels
    THEN [me EXCEPT !.level = @ + 1, !.pc = "level"]
    ELSE NextType(me)

(* bookkeeping of the model: a unit has run to its end *)
Ended(me) ==
    [me EXCEPT !.units_done = @ + 1,
               !.completed_after_stop = @ + (IF me.stop_requested THEN 1 ELSE 0)]

(* Variant: the return leaves the thread without running the finally block *)
ReturnSkipsFinally(me) == [me EXCEPT !.pc = "dead"]

(* "return" inside the try block: the finally block runs next *)
ReturnFromTry(me) == [me EXCEPT !.pc = "finally"]

(* the statements before the file loop *)
WStart(w) ==
    /\ At(w, "start")
    /\ LET me == workers[w]
           files == FilesToProcess
       IN  workers' = [workers EXCEPT ![w] =
              IF files = <<>>
              THEN ReturnFromTry(me)
              ELSE [me EXCEPT !.pc = "file", !.files = files, !.fi = 1,
                      !.total_operations = TotalOperations(files, me.types, me.levels),
                      !.current_operation = 0]]
    /\ worker_tk_calls' = worker_tk_calls \cup LogCalls
    /\ UNCHANGED <<app, envVars, cliVars, noiseVars, selection_type,
                   current_project_path, generation_active, noise_controls,
                   tk_queue, processing_history, shown>>

(* head of the file loop: the cancellation check, then the load *)
WFile(w) ==
    /\ At(w, "file")
    /\ LET me == workers[w]
       IN  IF me.fi > Len(me.files) \/ ~generation_active
           THEN /\ workers' = [workers EXCEPT ![w] =
                      [me EXCEPT !.pc = "record",
                                 !.cancelled = @ \/ me.fi <= Len(me.files)]]
                /\ UNCHANGED worker_tk_calls
           ELSE /\ worker_tk_calls' = worker_tk_calls \cup LogCalls
                /\ workers' = [workers EXCEPT ![w] =
                      LET f == me.files[me.fi]
                          tried == Logged(me, LoadEvent(f, LoadSucceeds(f)))
                      IN  IF LoadSucceeds(f)
                          THEN [tried EXCEPT !.ti = 1, !.pc = "type"]
                          ELSE NextFile(tried)]
    /\ UNCHANGED <<app, envVars, cliVars, noiseVars, selection_type,
                   current_project_path, generation_active, noise_controls,
                   tk_queue, processing_history, shown>>

(* head of the type loop: the cancellation check, then the type's folder *)
WType(w) ==
    /\ At(w, "type")
    /\ LET me == workers[w]
       IN  IF ~generation_active
           THEN /\ workers' = [workers EXCEPT ![w] =
                      [me EXCEPT !.pc = "viewer", !.cancelled = TRUE]]
                /\ UNCHANGED fs_dirs
           ELSE /\ fs_dirs' = fs_dirs \cup {me.types[me.ti]}
                /\ workers' = [workers EXCEPT ![w] = [me EXCEPT !.level = 1, !.pc = "level"]]
    /\ UNCHANGED <<app, envVars, noiseVars, entry, pc, fi, ti, level, original_img,
                   stats, fs_files, reports, exited, exit_status, trace,
                   selection_type, current_project_path, generation_active,
                   noise_controls, tk_queue, worker_tk_calls, processing_history, shown>>

(* head of the level loop: the cancellation check, the progress update,   *)
(* then apply_noise                                                        *)
WLevel(w) ==
    /\ At(w, "level")
    /\ LET me == workers[w]
           cur == me.current_operation + 1
           outcome == UnitOutcome(fail_pat, me.types[me.ti], me.level)
           begun == [me EXCEPT !.current_operation = cur,
                       !.started_after_stop = @ + (IF me.stop_requested THEN 1 ELSE 0)]
       IN  IF ~generation_active
           THEN /\ workers' = [workers EXCEPT ![w] =
                      NextType([me EXCEPT !.cancelled = TRUE])]
                /\ UNCHANGED <<tk_queue, worker_tk_calls>>
           ELSE /\ tk_queue' = Post(tk_queue,
                       ProgressEvent(w, Progress(cur, me.total_operations),
                                     "Generando", me.units_done))
                /\ IF outcome = "apply_raise"
                   THEN /\ workers' = [workers EXCEPT ![w] =
                              NextFile(Ended(Logged(begun,
                                 UnitEvent(me.files[me.fi], me.types[me.ti], me.level,
                                           outcome))))]
                        /\ worker_tk_calls' = worker_tk_calls \cup AfterCalls \cup LogCalls
                   ELSE /\ workers' = [workers EXCEPT ![w] = [begun EXCEPT !.pc = "save"]]
                        /\ worker_tk_calls' = worker_tk_calls \cup AfterCalls
    /\ UNCHANGED <<app, envVars, cliVars, noiseVars, selection_type,
                   current_project_path, generation_active, noise_controls,
                   processing_history, shown>>

(* the rest of the unit: name the output, save it, log the result *)
WSave(w) ==
    /\ At(w, "save")
    /\ LET me == workers[w]
           f == me.files[me.fi]
           t == me.types[me.ti]
           outcome == UnitOutcome(fail_pat, t, me.level)
           path == GuiOutputPath(f, t, me.level)
           unit == [file |-> f, type |-> t, level |-> me.level]
           ended == [Ended(Logged(me, UnitEvent(f, t, me.level, outcome)))
                        EXCEPT !.saved = @ + (IF outcome = "ok" THEN 1 ELSE 0)]
       IN  /\ fs_files' = IF outcome = "ok"
                          THEN { x \in fs_files : x.path # path }
                               \cup { [path |-> path, by |-> unit] }
                          ELSE fs_files
           /\ workers' = [workers EXCEPT ![w] =
                 IF outcome = "save_raise" THEN NextFile(ended) ELSE NextLevel(ended)]
    /\ worker_tk_calls' = worker_tk_calls \cup LogCalls
    /\ UNCHANGED <<app, envVars, noiseVars, entry, pc, fi, ti, level, original_img,
                   stats, fs_dirs, reports, exited, exit_status, trace,
                   selection_type, current_project_path, generation_active,
                   noise_controls, tk_queue, processing_history, shown>>

(* after the type loop: show the first result of the first file *)
WViewer(w) ==
    /\ At(w, "viewer")
    /\ LET me == workers[w]
           first == GuiOutputPath(me.files[me.fi], me.types[1], 1)
           show == me.fi = 1 /\ me.types # <<>> /\ \E x \in fs_files : x.path = first
       IN  /\ tk_queue' = IF show THEN Post(tk_queue, LoadResultEvent(w)) ELSE tk_queue
           /\ worker_tk_calls' = IF show THEN worker_tk_calls \cup AfterCalls
                                 ELSE worker_tk_calls
           /\ workers' = [workers EXCEPT ![w] = NextFile(me)]
    /\ UNCHANGED <<app, envVars, cliVars, noiseVars, selection_type,
                   current_project_path, generation_active, noise_controls,
                   processing_history, shown>>

(* after the file loop: the processing record and the last progress update *)
WRecord(w) ==
    /\ At(w, "record")
    /\ LET me == workers[w]
       IN  /\ processing_history' = Append(processing_history,
                 [operation |-> "noise_generation",
                  noise_types |-> me.types, levels |-> me.levels,
                  files_processed |-> Len(me.files),
                  total_images_generated |-> me.current_operation])
           /\ tk_queue' = Post(tk_queue,
                 ProgressEvent(w, Percent(100), "Completato", me.units_done))
           /\ workers' = [workers EXCEPT ![w] = [me EXCEPT !.pc = "finally"]]
    /\ worker_tk_calls' = worker_tk_calls \cup AfterCalls \cup LogCalls
    /\ UNCHANGED <<app, envVars, cliVars, noiseVars, selection_type,
                   current_project_path, generation_active, noise_controls, shown>>

(* finally: self.root.after(0, self.generation_finished) *)
WFinally(w) ==
    /\ At(w, "finally")
    /\ tk_queue' = Post(tk_queue, FinishedEvent(w))
    /\ worker_tk_calls' = worker_tk_calls \cup AfterCalls
    /\ workers' = [workers EXCEPT ![w] = [workers[w] EXCEPT !.pc = "dead"]]
    /\ UNCHANGED <<app, envVars, cliVars, noiseVars, selection_type,
                   current_project_path, generation_active, noise_controls,
                   processing_history, shown>>

(* The files a GUI selection is made of, and the selections of a session *)
GuiFiles == { CandidateFiles[1], CandidateFiles[3], CandidateFiles[4] }

GuiListings == { l \in Listings(MaxFiles) : Range(l) \subseteq GuiFiles }

GuiSelections == { <<"poisson">>, <<"gaussian", "poisson">> }

GuiFailPatterns ==
    { p \in FailPatterns :
        \/ p.type = "none"
        \/ p.type = "poisson" /\ p.level = 1 }

(* A session: what is selected, the open project, the controls' settings,  *)
(* and how many times the user starts a generation.  Sessions with several *)
(* generations work on one readable file with one noise type.              *)
InitGui ==
    /\ app = "gui"
    /\ input_exists = TRUE
    /\ dir_listing \in GuiListings
    /\ selection_type \in {"none", "single_file", "multiple_files", "folder"}
    /\ selection_type = "none" => dir_listing = <<>>
    /\ selection_type = "single_file" => Len(dir_listing) = 1
    /\ selection_type = "multiple_files" => Len(dir_listing) >= 1
    /\ noise_levels \in 1..MaxLevels
    /\ selected_noise_types \in GuiSelections
    /\ fail_pat \in GuiFailPatterns
    /\ current_project_path \in {None, [path |-> "project"]}
    /\ entry = "none"
    /\ pc = "idle"
    /\ fi = 0 /\ ti = 0 /\ level = 0
    /\ original_img = None
    /\ stats = None
    /\ fs_dirs = {}
    /\ fs_files = {}
    /\ reports = {}
    /\ exited = FALSE
    /\ exit_status = 0
    /\ trace = <<>>
    /\ InitNoiseIdle
    /\ generation_active = FALSE
    /\ noise_controls = ControlsReady
    /\ tk_queue = <<>>
    /\ worker_tk_calls = {}
    /\ processing_history = <<>>
    /\ \E n \in {1, MaxRuns} :
          /\ workers = [w \in 1..n |-> Unborn]
          /\ shown = [w \in 1..n |-> <<>>]
          /\ n > 1 => /\ selection_type = "single_file"
                      /\ dir_listing[1].readable
                      /\ Len(selected_noise_types) = 1
                      /\ noise_levels = MaxLevels
                      /\ fail_pat.type = "none"
                      /\ current_project_path # None

NextGui ==
    \/ PressGenerate
    \/ PressStop
    \/ TkDispatch
    \/ \E w \in Runs : WStart(w)
    \/ \E w \in Runs : WFile(w)
    \/ \E w \in Runs : WType(w)
    \/ \E w \in Runs : WLevel(w)
    \/ \E w \in Runs : WSave(w)
    \/ \E w \in Runs : WViewer(w)
    \/ \E w \in Runs : WRecord(w)
    \/ \E w \in Runs : WFinally(w)

SpecGui == InitGui /\ [][NextGui]_vars

(* the steps of generation thread w *)
WorkerStep(w) ==
    \/ WStart(w) \/ WFile(w) \/ WType(w) \/ WLevel(w)
    \/ WSave(w) \/ WViewer(w) \/ WRecord(w) \/ WFinally(w)

(* a started thread keeps being scheduled and the Tk main loop keeps      *)
(* running the callbacks handed to it                                      *)
FairGui ==
    /\ WF_vars(TkDispatch)
    /\ \A w \in Runs : WF_vars(WorkerStep(w))

SpecGuiLive == SpecGui /\ FairGui

----------------------------------------------------------------------------
(* Both front ends of the pipeline: the command line and the GUI *)

InitPipe == InitBatch \/ InitGui

NextPipe == NextBatch \/ NextGui

SpecPipe == InitPipe /\ [][NextPipe]_vars

----------------------------------------------------------------------------
(* Properties of the noise models *)

----------------------------------------------------------------------------
(* Properties of the command-line pipeline *)

TraceOf(kind) == { i \in DOMAIN trace : trace[i].kind = kind }

Attempted == { trace[i].unit : i \in TraceOf("unit") }

LoadsTried == { trace[i].file : i \in TraceOf("load") }

FailureEvents ==
    Cardinality({ i \in TraceOf("load") : ~trace[i].ok }) +
    Cardinality({ i \in TraceOf("unit") : trace[i].outcome # "ok" })

AllTypes == Range(noise_types)

UnitsOf(f, types, n) ==
    { [file |-> f, type |-> t, level |-> l] : t \in types, l \in 1..n }

(* the file loop is over: the function returned, or the process died *)
LoopEnded == pc \in {"proc_return", "main_after", "done", "crashed"}

Unreadable == { f \in Range(dir_listing) :
                  f.ext \in Range(image_extensions) /\ ~f.readable }

NoRecognizedImage ==
    \A i \in DOMAIN dir_listing : dir_listing[i].ext \notin Range(image_extensions)

(* C1: a failure of a load, of an apply or of a save is counted as exactly *)
(* one failure and never ends the run: when the file loop is over every    *)
(* file was tried and every (type, level) unit of every loaded file was    *)
(* attempted; with one unloadable file among N the others are processed    *)
(* in full and total_failed >= 1.                                          *)
C1_FailureIsolation ==
    /\ stats # None => stats.total_failed = FailureEvents
    /\ LoopEnded =>
          \A i \in DOMAIN dir_listing :
             LET f == dir_listing[i] IN
             f.ext \in Range(image_extensions) =>
                /\ f \in LoadsTried
                /\ f.readable => UnitsOf(f, AllTypes, noise_levels) \subseteq Attempted
    /\ (LoopEnded /\ Unreadable # {}) => stats.total_failed >= 1

C1_Witness ==
    /\ pc = "done"
    /\ Cardinality(Unreadable) = 1
    /\ \E i, j, k \in DOMAIN trace :
          /\ i < j /\ j < k
          /\ trace[i].kind = "load" /\ ~trace[i].ok
          /\ trace[j].kind = "unit" /\ trace[j].outcome = "apply_raise"
          /\ trace[k].kind = "unit" /\ trace[k].outcome = "ok"

(* C4: with the input directory absent, or holding no file with a          *)
(* recognized extension, nothing is loaded, no unit is processed and no    *)
(* report file is written.                                                 *)
C4_NoInputNoWork ==
    (~input_exists \/ NoRecognizedImage) =>
        /\ trace = <<>>
        /\ fs_files = {}
        /\ reports = {}

C4_Witness ==
    /\ app = "cli" /\ exited
    /\ input_exists /\ dir_listing # <<>> /\ NoRecognizedImage

(* C5: the command-line entry point ends with a non-zero exit status when  *)
(* the input folder is absent or holds no recognized image.                *)
C5_NonZeroExit ==
    (entry = "main" /\ exited /\ (~input_exists \/ NoRecognizedImage))
        => exit_status # 0

(* C6: a run of main that passes the configuration checks writes both      *)
(* report files, after the last file and whatever failed, and the report   *)
(* carries the final counters: totals and per-type {processed, failed}.    *)
C6_ReportAlwaysWritten ==
    /\ reports # {} => (pc = "done" /\ Range(Files) \subseteq LoadsTried)
    /\ (entry = "main" /\ exited /\ input_exists /\ ~NoRecognizedImage) =>
          /\ { r.name : r \in reports } = ReportNames
          /\ \A r \in reports :
                /\ r.content.processing_summary.total_images_processed
                      = stats.total_processed
                /\ r.content.processing_summary.total_failures = stats.total_failed
                /\ r.content.processing_summary.total_failures = FailureEvents
                /\ r.content.noise_types_details = stats.noise_types

C6_Witness ==
    /\ exited /\ reports # {}
    /\ stats.total_processed = 0
    /\ stats.total_failed > Len(Files)

----------------------------------------------------------------------------
(* Properties of the GUI's generation threads *)

FracEq(p, q) == p[1] * q[2] = q[1] * p[2]

(* total_units = files x selected types x levels of a started run *)
TotalUnits(me) == Len(me.files) * Len(me.types) * me.levels

(* C2: once Stop has been pressed during a run, the run starts no further *)
(* (file, type, level) unit, so at most one unit (the one in progress)    *)
(* ends after the request.                                                *)
C2_CancelAtUnitBoundary ==
    \A w \in DOMAIN workers :
        /\ workers[w].started_after_stop = 0
        /\ workers[w].completed_after_stop <= 1

(* C7: a worker thread reaches the interactive thread only by handing a   *)
(* callback over with root.after; it calls no other tkinter method.       *)
C7_ThreadSafeHandoff == worker_tk_calls \subseteq AfterCalls

(* C8 as stated: every progress update delivered for a run shows          *)
(* units_done / total_units, never less than the update before it and     *)
(* never more than 100%.                                                  *)
C8_ProgressFraction ==
    [][\A w \in DOMAIN shown :
         shown'[w] # shown[w] =>
           LET new == shown'[w][1]
           IN  /\ FracEq(new.p, <<new.units_done * 100, TotalUnits(workers[w])>>)
               /\ FracLeq(new.p, Percent(100))
               /\ shown[w] # <<>> => FracLeq(shown[w][1].p, new.p)]_vars

(* C8: the update issued when a unit starts shows the units started so    *)
(* far, that unit included, over total_units = files x selected types x   *)
(* levels; the update issued after the file loop shows 100% however many  *)
(* units ran; the updates delivered for one run never decrease and never  *)
(* exceed 100%.                                                           *)
C8_ProgressShown ==
    [][\A w \in DOMAIN shown :
         shown'[w] # shown[w] =>
           LET new == shown'[w][1]
           IN  /\ new.status = "Generando" =>
                    FracEq(new.p, <<(new.units_done + 1) * 100, TotalUnits(workers[w])>>)
               /\ new.status = "Completato" => new.p = Percent(100)
               /\ FracLeq(new.p, Percent(100))
               /\ shown[w] # <<>> => FracLeq(shown[w][1].p, new.p)]_vars

(* the final 100% is on display for a run that left units out *)
C8_Witness ==
    \E w \in DOMAIN shown :
        /\ shown[w] # <<>>
        /\ shown[w][1].status = "Completato"
        /\ workers[w].units_done >= 2
        /\ workers[w].units_done < TotalUnits(workers[w])

----------------------------------------------------------------------------
(* Properties of both front ends *)

TiffExtensions == {".tif", ".tiff", ".TIF", ".TIFF"}

TypesWritten == { x.by.type : x \in fs_files }

FailureFree(files) ==
    /\ fail_pat.type = "none"
    /\ \A i \in DOMAIN files : files[i].readable

(* a command-line run without failures has left the file loop *)
CliRunDone == app = "cli" /\ stats # None /\ LoopEnded /\ FailureFree(Files)

(* a GUI run without failures and without cancellation has ended *)
GuiRunDone(w) ==
    /\ app = "gui" /\ workers[w].pc = "dead"
    /\ ~workers[w].cancelled
    /\ FailureFree(workers[w].files)

NamedFor(x, ext) ==
    /\ x.path.dir = x.by.type
    /\ x.path.file.base = x.by.file.stem
    /\ x.path.file.type = x.by.type
    /\ Len(x.path.file.nn) = 2
    /\ x.path.file.nn[1] * 10 + x.path.file.nn[2] = x.by.level
    /\ x.path.file.ext = ext
    /\ x.by.type \in fs_dirs

(* C9 as stated: every output is <root>/<type>/<base>_<type>_level_<NN>   *)
(* with NN the level on two digits and the extension .tif for a TIFF      *)
(* input, .jpg otherwise; every applied type has its folder.              *)
C9_OutputLayout ==
    \A x \in fs_files :
        NamedFor(x, IF x.by.file.ext \in TiffExtensions THEN ".tif" ELSE ".jpg")

(* C9: every output is <root>/<type>/<base>_<type>_level_<NN> with NN the *)
(* level on two digits; on the command line the extension is .tif for a   *)
(* TIFF input and .jpg otherwise, in the GUI it is .tif for every input;  *)
(* every applied type has its folder.                                     *)
C9_OutputLayoutByFrontEnd ==
    \A x \in fs_files :
        NamedFor(x, IF app = "gui" \/ x.by.file.ext \in TiffExtensions
                    THEN ".tif" ELSE ".jpg")

(* the GUI has written the output of a JPEG input *)
C9_Witness ==
    /\ app = "gui"
    /\ \E x \in fs_files : x.by.file.ext = ".jpg" /\ x.by.level = MaxLevels

----------------------------------------------------------------------------
(* Properties of the noise models on pixel values *)

CallReturned == app = "pixels" /\ noisy # None /\ ~noisy.raised

InRange(t, lo, hi) == \A v \in Values(t) : lo <= v /\ v <= hi

(* C11: for every noise type but compression, every value of the output   *)
(* lies between the minimum and the maximum of the input image, 16-bit     *)
(* inputs with values above 255 included.                                  *)
C11_RangePreserved ==
    (CallReturned /\ noise_type # "compression") =>
        InRange(noisy.out, ImgMin(loaded_img), ImgMax(loaded_img))

----------------------------------------------------------------------------
(* Claims about load_multiband_image and save_multiband_image *)

LoadReturned == app = "codec" /\ load_ret # None /\ ~load_ret.raised

LoadRaised == app = "codec" /\ load_ret # None /\ load_ret.raised

(* C12: whenever load_multiband_image returns, whichever reader produced   *)
(* the array, the tensor has exactly three axes in the order (band,        *)
(* height, width): a file of one band comes back with a band axis of       *)
(* length one and a small trailing axis has been moved to the front.       *)
C12_ThreeAxesBandFirst ==
    LoadReturned =>
        /\ NDim(load_ret.tensor.shape) = 3
        /\ (disk.count <= 10 =>
               load_ret.tensor.shape = <<disk.count, disk.height, disk.width>>)

(* the readers whose branch the code enters for the file on disk *)
ApplicableReaders == { i \in 1..Len(Readers) : Applicable(Readers[i], disk, backends) }

WorkingReaders == { i \in ApplicableReaders : Readers[i] \notin backends.fail }

ReadersUpTo(last) ==
    LET entered(r) == \E i \in ApplicableReaders : i <= last /\ Readers[i] = r
    IN  SelectSeq(Readers, entered)

(* C13: the readers are tried in the fixed order rasterio, tifffile, PIL,  *)
(* OpenCV; the call returns the array of the first reader that succeeds    *)
(* and consults none after it; it raises exactly when every reader whose   *)
(* branch is entered has failed.                                           *)
C13_FirstSuccessInOrder ==
    (app = "codec" /\ load_ret # None) =>
        /\ load_ret.raised <=> WorkingReaders = {}
        /\ load_ret.raised => load_ret.consulted = ReadersUpTo(Len(Readers))
        /\ ~load_ret.raised =>
              /\ load_ret.reader = Readers[SetMin(WorkingReaders)]
              /\ load_ret.consulted = ReadersUpTo(SetMin(WorkingReaders))

C13_Witness ==
    /\ LoadReturned
    /\ load_ret.reader = "tifffile"
    /\ load_ret.consulted = <<"rasterio", "tifffile">>
    /\ backends.pil /\ IsTiffExt(disk.ext)
    /\ backends.fail = {"rasterio"}

SavedNoisy == app = "pixels" /\ noisy # None /\ ~noisy.raised /\ disk # None

(* C14: whatever noise model produced the tensor, the file written by      *)
(* save_multiband_image holds 8-bit samples within [0, 255] when the       *)
(* tensor's maximum is at most 255 and 16-bit samples within [0, 65535]    *)
(* otherwise; no other sample type reaches the disk.                       *)
C14_SavedSampleType ==
    SavedNoisy =>
        IF ImgMax(noisy.out) <= 255
        THEN disk.dtype = "uint8" /\ InRange(disk, 0, 255)
        ELSE disk.dtype = "uint16" /\ InRange(disk, 0, 65535)

(* a tensor was saved and the file just written was loaded again *)
RoundTripDone == app = "codec" /\ image # None /\ disk # None /\ LoadReturned

WithinOneStep(a, b) ==
    /\ DOMAIN a.data = DOMAIN b.data
    /\ \A i \in DOMAIN a.data : \A x \in Pixels :
          a.data[i][x] - b.data[i][x] \in {-1, 0, 1}

(* C15: saving a tensor and loading the file back gives a tensor of the    *)
(* same shape, a single-band (1, H, W) tensor included, whose values are   *)
(* within one quantization step of the saved ones.                         *)
C15_SaveLoadRoundTrip ==
    RoundTripDone =>
        /\ load_ret.tensor.shape = image.shape
        /\ WithinOneStep(load_ret.tensor, image)

----------------------------------------------------------------------------
(* Claims about the single noise models *)

Bands(t) == DOMAIN t.data

Multiband(t) == NDim(t.shape) = 3 /\ t.shape[1] >= 2

(* the bands whose value at coordinate x differs from the input's *)
ChangedBands(x) == { b \in Bands(loaded_img) : noisy.out.data[b][x] # loaded_img.data[b][x] }

(* C16: in one salt_pepper call on a multiband image, a coordinate that is *)
(* flipped in one band is flipped in every band, and to the same extreme   *)
(* (the image maximum for salt, the image minimum for pepper).             *)
C16_MaskCoherence ==
    (CallReturned /\ noise_type = "salt_pepper" /\ Multiband(loaded_img)) =>
        \A x \in Pixels :
            ChangedBands(x) # {} =>
                \E v \in {ImgMin(loaded_img), ImgMax(loaded_img)} :
                    \A b \in Bands(loaded_img) : noisy.out.data[b][x] = v

C16_Witness ==
    /\ CallReturned /\ noise_type = "salt_pepper" /\ Multiband(loaded_img)
    /\ \E x \in Pixels : ChangedBands(x) = Bands(loaded_img)
    /\ \E x \in Pixels : ChangedBands(x) = {}
    /\ \E b, c \in Bands(loaded_img) : loaded_img.data[b] # loaded_img.data[c]

ConstantImage(t) == ImgMin(t) = ImgMax(t)

(* C17: the poisson model called on a constant image (maximum equal to     *)
(* minimum) divides nothing by zero and returns the image unchanged.       *)
C17_PoissonConstantImage ==
    (app = "pixels" /\ noisy # None /\ noise_type = "poisson"
        /\ ConstantImage(loaded_img)) =>
        /\ ~noisy.div_by_zero
        /\ ~noisy.raised
        /\ noisy.out.data = loaded_img.data

CallDone == app = "pixels" /\ noisy # None

(* the parameter each model computes from the level, in the units of the   *)
(* model (thousandths for salt_pepper, tenths for poisson and atmospheric, *)
(* hundredths for speckle)                                                 *)
LevelParam(type, lvl) ==
    CASE type = "gaussian"    -> GaussianBaseSigma(lvl)
      [] type = "salt_pepper" -> SaltPepperProb(lvl)
      [] type = "poisson"     -> PoissonScale(lvl)
      [] type = "speckle"     -> SpeckleVariance(lvl)
      [] type = "motion_blur" -> MotionKernelSize(lvl)
      [] type = "atmospheric" -> HazeIntensity(lvl)
      [] type = "compression" -> JpegQuality(lvl)
      [] OTHER                -> SigmaLuma(lvl)

(* the stated laws: value at level 1 and increment per level, same units *)
StatedLaw(type) ==
    CASE type = "gaussian"    -> [base |-> 5, slope |-> 5]
      [] type = "salt_pepper" -> [base |-> 1, slope |-> 1]
      [] type = "poisson"     -> [base |-> 1, slope |-> 1]
      [] type = "speckle"     -> [base |-> 5, slope |-> 5]
      [] type = "motion_blur" -> [base |-> 3, slope |-> 2]
      [] type = "atmospheric" -> [base |-> 1, slope |-> 1]
      [] type = "compression" -> [base |-> 95, slope |-> -5]
      [] OTHER                -> [base |-> 5, slope |-> 10]

Linear(law, lvl) == law.base + law.slope * (lvl - 1)

CompressionReturned ==
    CallReturned /\ noise_type = "compression" /\ NDim(loaded_img.shape) = 3

(* C19: compression of an image with at least three bands sends exactly    *)
(* the first three bands through the codec, together in one encode, and    *)
(* returns every band beyond the third equal to the input; with fewer than *)
(* three bands each band goes through the codec in an encode of its own.   *)
C19_CompressionBands ==
    CompressionReturned =>
        IF loaded_img.shape[1] >= 3
        THEN /\ noisy.encoded = << {1, 2, 3} >>
             /\ \A b \in Bands(loaded_img) :
                   b > 3 => noisy.out.data[b] = loaded_img.data[b]
        ELSE noisy.encoded = [b \in Bands(loaded_img) |-> {b}]

C19_Witness ==
    /\ CompressionReturned
    /\ loaded_img.shape[1] > 3
    /\ \A b \in 1..3 : noisy.out.data[b] # loaded_img.data[b]
    /\ noisy.out.data[4] = loaded_img.data[4]

(* C20: no noise model writes into its input: in every state of a run, and *)
(* so after any sequence of apply_noise calls, the image held by the loop  *)
(* equals what load_multiband_image returned, and the tensor a call leaves *)
(* in its argument is that same image.                                     *)
C20_InputUntouched ==
    app = "pixels" =>
        /\ image = loaded_img
        /\ CallDone => noisy.input = loaded_img

C20_Witness ==
    /\ CallReturned /\ noise_type = "atmospheric" /\ Multiband(loaded_img)
    /\ noisy.out.data # loaded_img.data
    /\ image = loaded_img

----------------------------------------------------------------------------
(* Properties of the order of the units *)

(* a load or a unit, without its outcome *)
Step(ev) ==
    IF ev.kind = "load"
    THEN [kind |-> "load", file |-> ev.file, type |-> "-", level |-> 0]
    ELSE [kind |-> "unit", file |-> ev.unit.file, type |-> ev.unit.type,
          level |-> ev.unit.level]

Steps(history) == [i \in DOMAIN history |-> Step(history[i])]

(* the units of one file: types in list order, levels from 1 to n *)
UnitSteps(f, types, n) ==
    [k \in 1..(Len(types) * n) |->
        [kind |-> "unit", file |-> f, type |-> types[((k - 1) \div n) + 1],
         level |-> ((k - 1) % n) + 1]]

(* one file: its load, then all its units when the load succeeds *)
FileSteps(f, types, n) ==
    << [kind |-> "load", file |-> f, type |-> "-", level |-> 0] >>
        \o (IF f.readable THEN UnitSteps(f, types, n) ELSE <<>>)

Schedule(files, types, n) ==
    Concat([i \in DOMAIN files |-> FileSteps(files[i], types, n)])

IsPrefix(s, t) == Len(s) <= Len(t) /\ \A i \in DOMAIN s : s[i] = t[i]

(* C21: the loads and units of a run happen one after another in the fixed *)
(* order: a file is loaded once, then all its (type, level) units follow,  *)
(* types in list order and levels from 1 to L, before the next file is     *)
(* loaded; the folder of a type exists when an output of the type is       *)
(* saved.  The history of a run is at every point a prefix of that order.  *)
C21_FixedUnitOrder ==
    /\ app = "cli" => IsPrefix(Steps(trace), Schedule(Files, noise_types, noise_levels))
    /\ app = "gui" =>
          \A w \in DOMAIN workers :
              IsPrefix(Steps(workers[w].log),
                       Schedule(workers[w].files, workers[w].types, workers[w].levels))
    /\ \A x \in fs_files : x.by.type \in fs_dirs

----------------------------------------------------------------------------
(* Further properties of the GUI's generation threads *)

(* the units a worker has attempted: apply_noise was called for them *)
WorkerAttempted(me) == { me.log[i].unit : i \in { j \in DOMAIN me.log : me.log[j].kind = "unit" } }

WorkerLoaded(me) == { me.log[i].file : i \in { j \in DOMAIN me.log : me.log[j].kind = "load" } }

(* the thread has ended and no cancellation check ever stopped a loop *)
RanToEnd(me) == me.pc = "dead" /\ ~me.cancelled /\ me.files # <<>>

(* C22: in the GUI worker an error raised while a unit is applied or saved *)
(* is confined to that unit: a run that is not cancelled still loads every *)
(* file and attempts every (type, level) unit of every file it loaded.     *)
C22_GuiUnitErrorConfined ==
    app = "gui" =>
        \A w \in DOMAIN workers :
            RanToEnd(workers[w]) =>
                \A f \in Range(workers[w].files) :
                    /\ f \in WorkerLoaded(workers[w])
                    /\ f.readable =>
                          UnitsOf(f, Range(workers[w].types), workers[w].levels)
                              \subseteq WorkerAttempted(workers[w])

(* the generation_finished callbacks of thread w waiting in the Tk queue *)
PendingFinished(w) ==
    Cardinality({ i \in DOMAIN tk_queue : tk_queue[i] = FinishedEvent(w) })

(* generation_finished has run for thread w *)
Finished(w) == w \in DOMAIN workers /\ workers[w].finished_calls = 1

(* C23: every generation run started in the GUI goes from Idle to Running  *)
(* (generation_active set when the thread is started) and then eventually  *)
(* reaches its finished state: generation_finished is delivered for it     *)
(* exactly once, whether all units ran, no file was found, the run was     *)
(* cancelled or a unit raised, and that delivery leaves generation_active  *)
(* false and the Generate control enabled.                                 *)
C23_RunReachesFinished ==
    /\ [](\A w \in DOMAIN workers :
            /\ workers[w].finished_calls + PendingFinished(w) =
                  (IF workers[w].pc = "dead" THEN 1 ELSE 0))
    /\ [][\A w \in DOMAIN workers :
            /\ (workers[w].pc = "unborn" /\ workers'[w].pc # "unborn") =>
                  (workers'[w].pc = "start" /\ generation_active')
            /\ workers'[w].finished_calls # workers[w].finished_calls =>
                  /\ ~generation_active'
                  /\ ~noise_controls'.generation_active
                  /\ noise_controls'.generate_button = "normal"]_vars
    /\ \A w \in Runs :
          (w \in DOMAIN workers /\ workers[w].pc = "start") ~> Finished(w)

(* a cancelled run and a run whose unit raised have both been finished *)
C23_Witness ==
    /\ app = "gui"
    /\ \E w \in DOMAIN workers :
          Finished(w) /\ workers[w].cancelled /\ ~generation_active
    /\ \A w \in DOMAIN workers : Finished(w)

----------------------------------------------------------------------------
(* Properties of the dispatch on the type name and of the counters *)

EightNames ==
    {"gaussian", "salt_pepper", "poisson", "speckle",
     "motion_blur", "atmospheric", "compression", "iso_noise"}

UnitEventsOf(t, outcomes) ==
    { i \in TraceOf("unit") : trace[i].unit.type = t /\ trace[i].outcome \in outcomes }

(* C24: apply_noise accepts exactly the eight names of                     *)
(* NoiseGenerator.noise_types: with one of them the call returns a tensor, *)
(* with any other name it raises and produces no output.  In the batch     *)
(* pipeline a unit whose apply_noise raised is counted as one failed unit  *)
(* of its type and the run goes on to the remaining units.                 *)
C24_EightTypeNames ==
    /\ Range(noise_types) = EightNames /\ Len(noise_types) = 8
    /\ (app = "noise" /\ noisy # None) =>
          /\ noisy.raised <=> noise_type \notin EightNames
          /\ noisy.raised => noisy.shape = <<>>
    /\ (app = "cli" /\ stats # None) =>
          /\ pc # "crashed"
          /\ \A t \in DOMAIN stats.noise_types :
                stats.noise_types[t].failed
                    >= Cardinality(UnitEventsOf(t, {"apply_raise"}))
          /\ stats.total_failed >=
                Cardinality({ i \in TraceOf("unit") : trace[i].outcome = "apply_raise" })
          /\ \A i \in TraceOf("unit") :
                (trace[i].outcome = "apply_raise" /\ LoopEnded) =>
                    UnitsOf(trace[i].unit.file, AllTypes, noise_levels) \subseteq Attempted

C24_Witness ==
    /\ app = "noise" /\ noisy # None /\ noisy.raised /\ noise_type = "Gaussian"

(* the sum of one counter over the types in S *)
RECURSIVE SumCounter(_, _, _)
SumCounter(d, S, counter) ==
    IF S = {} THEN 0
    ELSE LET x == CHOOSE y \in S : TRUE
         IN  d[x][counter] + SumCounter(d, S \ {x}, counter)

FailedLoads == { i \in TraceOf("load") : ~trace[i].ok }

LoadedFiles == { i \in TraceOf("load") : trace[i].ok }

(* C25: at every point of a batch run the counters agree: total_processed  *)
(* is the sum of the per-type processed counters, total_failed the sum of  *)
(* the per-type failed counters plus the files that failed to load, every  *)
(* attempted unit has added one to exactly one of processed and failed of  *)
(* its type, and when the loop is over every applied type has              *)
(* processed + failed = loaded files x L.                                  *)
C25_CountersConsistent ==
    (app = "cli" /\ stats # None) =>
        LET types == DOMAIN stats.noise_types
            processed(t) == stats.noise_types[t].processed
            failed(t) == stats.noise_types[t].failed
        IN  /\ stats.total_processed = SumCounter(stats.noise_types, types, "processed")
            /\ stats.total_failed =
                  SumCounter(stats.noise_types, types, "failed") + Cardinality(FailedLoads)
            /\ \A t \in types :
                  /\ processed(t) = Cardinality(UnitEventsOf(t, {"ok"}))
                  /\ failed(t) = Cardinality(UnitEventsOf(t, FailKinds))
            /\ \A i \in TraceOf("unit") : trace[i].unit.type \in types
            /\ LoopEnded =>
                  \A t \in types :
                      processed(t) + failed(t) = Cardinality(LoadedFiles) * noise_levels

(* a run with a file that did not load, failed units and saved units *)
C25_Witness ==
    /\ app = "cli" /\ stats # None /\ pc = "done"
    /\ FailedLoads # {}
    /\ Cardinality(LoadedFiles) = 1
    /\ fail_pat.kind = "save_false" /\ fail_pat.type = "poisson"
    /\ stats.noise_types["poisson"].failed >= 1
    /\ stats.noise_types["poisson"].processed >= 1

----------------------------------------------------------------------------
(* Properties of the output paths *)

(* C26: within one run two different (file, type, level) units never have  *)
(* the same output path, whatever distinct input files with recognized     *)
(* extensions the run works on: no output overwrites another output of     *)
(* the same run.                                                           *)
C26_DistinctOutputPaths ==
    /\ app = "cli" =>
          \A u, v \in Attempted :
              u # v => CliOutputPath(u.file, u.type, u.level)
                          # CliOutputPath(v.file, v.type, v.level)
    /\ app = "gui" =>
          \A w \in DOMAIN workers :
              \A u, v \in WorkerAttempted(workers[w]) :
                  u # v => GuiOutputPath(u.file, u.type, u.level)
                              # GuiOutputPath(v.file, v.type, v.level)

----------------------------------------------------------------------------
(* Properties of the GUI's controls *)

RunningWorkers == { w \in DOMAIN workers : Alive(w) }

(* C27: at any time at most one generation thread is running: while a     *)
(* worker has not finished the Generate control stays disabled, under      *)
(* every interleaving of Generate, Stop and worker steps.                  *)
C27_SingleWorker ==
    app = "gui" =>
        /\ Cardinality(RunningWorkers) <= 1
        /\ RunningWorkers # {} => noise_controls.generate_button = "disabled"

(* thread w appends its processing record in this step *)
Records(w) ==
    /\ w \in DOMAIN workers
    /\ workers[w].pc = "record"
    /\ Len(processing_history') = Len(processing_history) + 1

(* C28: the count stored in a run's processing record as                   *)
(* total_images_generated equals the number of units of that run whose     *)
(* save returned success, also when saves failed, a file did not load or   *)
(* the run was cancelled.                                                  *)
C28_RecordedCount ==
    [][\A w \in Runs :
         Records(w) =>
            processing_history'[Len(processing_history')].total_images_generated
                = workers[w].saved]_vars

(* the controls show a generation in progress *)
ControlsBusy ==
    \/ noise_controls.generation_active
    \/ noise_controls.generate_button = "disabled"
    \/ noise_controls.stop_button = "normal"

(* a run is under way: a thread is alive or its done signal is pending *)
RunUnderWay ==
    \E w \in DOMAIN workers : Alive(w) \/ PendingFinished(w) > 0

(* C29: when the main window rejects a generation request (no selection,   *)
(* no project) the controls are back in the Ready state once the click has *)
(* been handled: they never show a generation in progress while no worker  *)
(* is running.                                                             *)
C29_RejectedRequestResets ==
    (app = "gui" /\ ControlsBusy) => RunUnderWay

----------------------------------------------------------------------------
(* Frame of the salt and pepper model *)

SaltPepperReturned == CallReturned /\ noise_type = "salt_pepper"

(* C30: salt_pepper changes only the pixels of its two masks: a pixel      *)
(* outside both masks keeps its input value in every band, a pixel of the  *)
(* pepper mask ends at the image minimum (also when the salt mask holds it *)
(* too) and every other pixel of the salt mask ends at the image maximum.  *)
C30_SaltPepperFrame ==
    SaltPepperReturned =>
        \A b \in Bands(loaded_img) : \A x \in Pixels :
            noisy.out.data[b][x] =
                IF x \in noisy.masks.pepper THEN ImgMin(loaded_img)
                ELSE IF x \in noisy.masks.salt THEN ImgMax(loaded_img)
                ELSE loaded_img.data[b][x]

(* one pixel in both masks, the other in neither, on a non-constant image *)
C30_Witness ==
    /\ SaltPepperReturned
    /\ ~ConstantImage(loaded_img)
    /\ noisy.masks.salt \cap noisy.masks.pepper # {}
    /\ Pixels \ (noisy.masks.salt \cup noisy.masks.pepper) # {}
====
